---------------------------- MODULE Spec2Model ----------------------------
(***************************************************************************)
(* Open Bootloader: the interface registry and protocol dispatcher of      *)
(* src/Core/openbl_core.c and the flash engine of                          *)
(* src/Interfaces/Patterns/FLASH/flash_interface.c.                        *)
(*                                                                         *)
(* Spec      : startup (OPENBL_Init) followed by the OPENBL_Handler loop.  *)
(* SpecFlash : the flash engine's entry points on a modelled controller.   *)
(***************************************************************************)
EXTENDS Integers, Sequences, FiniteSets, TLC

(***************************************************************************)
(* Bounds of the model.                                                    *)
(***************************************************************************)
\* Capacity of a_InterfacesTable.  interfaces_conf.h sets it per build.
INTERFACES_SUPPORTED == 3

\* Poll budgets of the wait routines (iteration counts; platform.h and the
\* vendor headers set them per clock configuration).
PROGRAM_TIMEOUT == 1

FLASH_TIMEOUT_VALUE == 2

(***************************************************************************)
(* Core: data of openbl_core.c                                             *)
(***************************************************************************)
VARIABLES
  compiled,            \* transports whose macro (USARTx, I2Cx, ...) is defined
  commandsList,        \* handlers that are not NULL in the command lists
  pc,                  \* position of the control thread: "register", "configure", "loop"
  regIndex,            \* next entry of the build's registration list (1-based)
  NumberOfInterfaces,
  a_InterfacesTable,
  p_Interface,         \* <<i>>: &a_InterfacesTable[i]; <<>>: not set
  interface_detected,  \* the static of OPENBL_Handler
  lastCall,            \* the call that produced the current state
  regArg,              \* the handle given to the last OPENBL_RegisterInterface
  status,              \* what the last OPENBL_RegisterInterface returned
  regStatuses,         \* what every registration of startup returned
  surfaced,            \* what OPENBL_Init hands to its caller
  configured,          \* p_Ops whose Init OPENBL_Init called, in order
  probed,              \* <<slot, value>> of every Detection() of the last Handler call
  opcodeRead,          \* <<slot, opcode>> of every GetCommandOpcode() of the last call
  invoked,             \* <<slot, handler>> of every command handler called in the last call
  sent                 \* <<slot, byte>> of every SendByte() of the last call

coreVars == <<compiled, commandsList, pc, regIndex, NumberOfInterfaces,
              a_InterfacesTable, p_Interface, interface_detected, lastCall,
              regArg, status, regStatuses, surfaced, configured, probed,
              opcodeRead, invoked, sent>>

(***************************************************************************)
(* Flash engine: data of flash_interface.c and the controller's registers  *)
(***************************************************************************)
VARIABLES
  dualBank,         \* FLASH_OPTR_DBANK is defined (a dual-bank part)
  crLock,           \* FLASH->CR is locked
  acr,              \* FLASH->ACR: [ICEN, DCEN]
  sr,               \* FLASH->SR: the error flags that are latched
  FlashProcess,     \* [Lock, ErrorCode, CacheToReactivate]
  Flash_BusyState,
  flashCall,        \* the flash call that produced the current state
  flashArg,         \* its payload
  flashResult,      \* what it returned
  issued,           \* the erase commands the last call started in the controller
  waits,            \* the wait routines the last call ran, in order
  busyBytes,        \* busy bytes the last call sent
  cacheLog,         \* of the last call: [during: ACR and the recorded
                    \* combination at each erase command, flushed: the
                    \* FLASH_FlushCaches calls, erases: entry and exit of each
                    \* OPENBL_FLASH_ExtendedErase]
  pageLog,          \* the page entries the last page erase processed, in order
  quadWord,         \* FLASH_TYPEPROGRAM_QUADWORD is defined (a quad-word part)
  programmed,       \* the HAL_FLASH_Program calls of the last call, in order
  optionBytes,      \* the option bytes as programmed: [RDPLevel, WRP]
  obLock,           \* the option-byte registers are locked
  obLog,            \* the HAL_FLASHEx_OBProgram calls of the last call, in order
  postProcessing,   \* the post-processing callback slot of the command layer
  launched,         \* the option bytes were launched within the last call
  wait              \* a wait routine followed poll by poll: [pc, routine,
                    \* Timeout, tick, polls, bsy, bytes, status]

flashVars == <<dualBank, crLock, acr, sr, FlashProcess, Flash_BusyState,
               flashCall, flashArg, flashResult, issued, waits, busyBytes,
               cacheLog, pageLog, quadWord, programmed, optionBytes, obLock,
               obLog, postProcessing, launched, wait>>

vars == <<coreVars, flashVars>>

NULL == "NULL"

Transports == {"USART", "I2C", "FDCAN", "SPI"}

\* The capability tables.  TRUE: the member is a function, FALSE: it is NULL.
USART_Ops ==
  [Init |-> TRUE, DeInit |-> TRUE, Detection |-> TRUE,
   GetCommandOpcode |-> TRUE, SendByte |-> TRUE]

I2C_Ops ==
  [Init |-> TRUE, DeInit |-> TRUE, Detection |-> TRUE,
   GetCommandOpcode |-> TRUE, SendByte |-> TRUE]

FDCAN_Ops ==
  [Init |-> TRUE, DeInit |-> TRUE, Detection |-> TRUE,
   GetCommandOpcode |-> TRUE, SendByte |-> FALSE]

SPI_Ops ==
  [Init |-> TRUE, DeInit |-> TRUE, Detection |-> TRUE,
   GetCommandOpcode |-> TRUE, SendByte |-> TRUE]

\* The table of the USB transport, which no build can register: OPENBL_Init
\* stops the compilation under USB_OTG_FS.
USB_Ops ==
  [Init |-> TRUE, DeInit |-> TRUE, Detection |-> TRUE,
   GetCommandOpcode |-> FALSE, SendByte |-> FALSE]

\* Mutant: the watchdog detects and reads opcodes.
IWDG_Ops_Detecting ==
  [Init |-> TRUE, DeInit |-> FALSE, Detection |-> TRUE,
   GetCommandOpcode |-> TRUE, SendByte |-> FALSE]

IWDG_Ops ==
  [Init |-> TRUE, DeInit |-> FALSE, Detection |-> FALSE,
   GetCommandOpcode |-> FALSE, SendByte |-> FALSE]

\* What a p_Ops pointer points to.
Ops(p) ==
  CASE p = "USART" -> USART_Ops
    [] p = "I2C"   -> I2C_Ops
    [] p = "FDCAN" -> FDCAN_Ops
    [] p = "SPI"   -> SPI_Ops
    [] p = "IWDG"  -> IWDG_Ops

\* The members of OPENBL_CommandsTypeDef the dispatcher looks at.
Handlers ==
  {"GetCommand", "GetVersion", "GetID", "ReadMemory", "WriteMemory", "Go",
   "ReadoutProtect", "ReadoutUnprotect", "EraseMemory", "WriteProtect",
   "WriteUnprotect", "NsWriteMemory", "NsEraseMemory", "NsWriteProtect",
   "NsWriteUnprotect", "NsReadoutProtect", "NsReadoutUnprotect", "Speed",
   "SpecialCommand", "ExtendedSpecialCommand"}

\* The case labels of the switch of OPENBL_CommandProcess.
KnownOpcodes ==
  {"CMD_GET_COMMAND", "CMD_GET_VERSION", "CMD_GET_ID", "CMD_READ_MEMORY",
   "CMD_WRITE_MEMORY", "CMD_GO", "CMD_READ_PROTECT", "CMD_READ_UNPROTECT",
   "CMD_EXT_ERASE_MEMORY", "CMD_LEG_ERASE_MEMORY", "CMD_WRITE_PROTECT",
   "CMD_WRITE_UNPROTECT", "CMD_NS_WRITE_MEMORY", "CMD_NS_ERASE_MEMORY",
   "CMD_NS_WRITE_PROTECT", "CMD_NS_WRITE_UNPROTECT", "CMD_NS_READ_PROTECT",
   "CMD_NS_READ_UNPROTECT", "CMD_SPEED", "CMD_SPECIAL_COMMAND",
   "CMD_EXTENDED_SPECIAL_COMMAND"}

\* A byte that is none of the case labels.
UnknownOpcodes == {"OTHER_BYTE"}

Opcodes == KnownOpcodes \cup UnknownOpcodes

NACK_BYTE == "NACK_BYTE"

\* The commands every transport of the protocol family carries; the others
\* (non-secure variants, speed, special commands) are per transport.
BasicHandlers ==
  {"GetCommand", "GetVersion", "GetID", "ReadMemory", "WriteMemory", "Go",
   "ReadoutProtect", "ReadoutUnprotect", "EraseMemory", "WriteProtect",
   "WriteUnprotect"}

\* The command lists come from OPENBL_<x>_GetCommandsList(), defined outside
\* this file.  A build's lists hold no handler, every handler, the basic ones
\* or all but the basic ones: every transport's list has the same members
\* set, and a handler is named by the slot of the interface whose list holds
\* it.
CommandsLists == {{}, Handlers, BasicHandlers, Handlers \ BasicHandlers}

\* What a uint8_t Detection() returns: 1 is activity.
DetectValues == {0, 1, 2}

Slots == 0 .. (INTERFACES_SUPPORTED - 1)

NullHandle == [p_Ops |-> NULL, p_Cmd |-> NULL]

\* The handle OPENBL_Init fills in for a transport, and for the watchdog.
HandleOf(k) ==
  IF k = "IWDG" THEN [p_Ops |-> "IWDG", p_Cmd |-> NULL]
  ELSE [p_Ops |-> k, p_Cmd |-> k]

\* The order of the registrations in OPENBL_Init.
RegistrationOrder == <<"USART", "I2C", "FDCAN", "SPI", "IWDG">>

\* The registrations a build performs: the #ifdef'd ones, then the watchdog.
BuildList(c) ==
  LET keep(k) == k \in c \cup {"IWDG"}
  IN  SelectSeq(RegistrationOrder, keep)


(***************************************************************************)
(* Core: functions of openbl_core.c                                        *)
(***************************************************************************)
\* Mutant: the capacity test is off by one.
RegisterInterface_OffByOne(t, n, Interface) ==
  IF n <= INTERFACES_SUPPORTED
  THEN [table  |-> [s \in DOMAIN t |-> IF s = n THEN Interface ELSE t[s]],
        n      |-> n + 1,
        status |-> "SUCCESS"]
  ELSE [table |-> t, n |-> n, status |-> "ERROR"]

\* OPENBL_RegisterInterface on table t holding n entries.
OPENBL_RegisterInterface(t, n, Interface) ==
  IF n < INTERFACES_SUPPORTED
  THEN [table  |-> [t EXCEPT ![n] = [p_Ops |-> Interface.p_Ops,
                                     p_Cmd |-> Interface.p_Cmd]],
        n      |-> n + 1,
        status |-> "SUCCESS"]
  ELSE [table |-> t, n |-> n, status |-> "ERROR"]

\* Mutant: the loop has no break, so the last interface reporting activity
\* wins.
RECURSIVE DetectionLoop_NoBreak(_, _, _, _, _)
DetectionLoop_NoBreak(t, n, ret, counter, acc) ==
  IF counter >= n THEN acc
  ELSE IF Ops(t[counter].p_Ops).Detection
       THEN LET detected == ret[counter]
                seen     == Append(acc.probed, <<counter, detected>>)
            IN  DetectionLoop_NoBreak(
                  t, n, ret, counter + 1,
                  [detected |-> IF detected = 1 THEN 1 ELSE acc.detected,
                   p |-> IF detected = 1 THEN <<counter>> ELSE acc.p,
                   probed |-> seen])
       ELSE DetectionLoop_NoBreak(t, n, ret, counter + 1, acc)

\* The body of the for loop of OPENBL_InterfaceDetection from counter on.
\* ret[s] is what the Detection() of slot s returns when it is called.
RECURSIVE DetectionLoop(_, _, _, _, _)
DetectionLoop(t, n, ret, counter, acc) ==
  IF counter >= n THEN acc
  ELSE IF Ops(t[counter].p_Ops).Detection
       THEN LET detected == ret[counter]
                seen     == Append(acc.probed, <<counter, detected>>)
            IN  IF detected = 1
                THEN [detected |-> detected, p |-> <<counter>>, probed |-> seen]
                ELSE DetectionLoop(t, n, ret, counter + 1,
                                   [detected |-> detected, p |-> acc.p,
                                    probed |-> seen])
       ELSE DetectionLoop(t, n, ret, counter + 1, acc)

\* OPENBL_InterfaceDetection: the value returned, p_Interface and the probes.
OPENBL_InterfaceDetection(t, n, p, ret) ==
  DetectionLoop(t, n, ret, 0, [detected |-> 0, p |-> p, probed |-> <<>>])

\* The switch of OPENBL_CommandProcess: the member of p_Cmd each case label
\* tests and calls; NULL for the default label.
CaseLabelMember(op) ==
  CASE op = "CMD_GET_COMMAND"              -> "GetCommand"
    [] op = "CMD_GET_VERSION"              -> "GetVersion"
    [] op = "CMD_GET_ID"                   -> "GetID"
    [] op = "CMD_READ_MEMORY"              -> "ReadMemory"
    [] op = "CMD_WRITE_MEMORY"             -> "WriteMemory"
    [] op = "CMD_GO"                       -> "Go"
    [] op = "CMD_READ_PROTECT"             -> "ReadoutProtect"
    [] op = "CMD_READ_UNPROTECT"           -> "ReadoutUnprotect"
    [] op = "CMD_EXT_ERASE_MEMORY"         -> "EraseMemory"
    [] op = "CMD_LEG_ERASE_MEMORY"         -> "EraseMemory"
    [] op = "CMD_WRITE_PROTECT"            -> "WriteProtect"
    [] op = "CMD_WRITE_UNPROTECT"          -> "WriteUnprotect"
    [] op = "CMD_NS_WRITE_MEMORY"          -> "NsWriteMemory"
    [] op = "CMD_NS_ERASE_MEMORY"          -> "NsEraseMemory"
    [] op = "CMD_NS_WRITE_PROTECT"         -> "NsWriteProtect"
    [] op = "CMD_NS_WRITE_UNPROTECT"       -> "NsWriteUnprotect"
    [] op = "CMD_NS_READ_PROTECT"          -> "NsReadoutProtect"
    [] op = "CMD_NS_READ_UNPROTECT"        -> "NsReadoutUnprotect"
    [] op = "CMD_SPEED"                    -> "Speed"
    [] op = "CMD_SPECIAL_COMMAND"          -> "SpecialCommand"
    [] op = "CMD_EXTENDED_SPECIAL_COMMAND" -> "ExtendedSpecialCommand"
    [] OTHER                               -> NULL

\* Mutant: the legacy erase opcode is routed to another member.
HandlerOf_LegacyElsewhere(op) ==
  IF op = "CMD_LEG_ERASE_MEMORY" THEN "NsEraseMemory" ELSE CaseLabelMember(op)

\* Mutant: two case labels call each other's member.
HandlerOf_Swapped(op) ==
  IF op = "CMD_GET_COMMAND" THEN "GetVersion"
  ELSE IF op = "CMD_GET_VERSION" THEN "GetCommand"
  ELSE CaseLabelMember(op)

\* The member the dispatcher uses for the opcode it read.
HandlerOf(op) == CaseLabelMember(op)

\* p_Cmd->h != NULL.  A NULL p_Cmd has no members to read.
CmdMember(list, p_Cmd, h) ==
  LET members == CASE p_Cmd # NULL -> list
  IN  h \in members

\* Mutant: a missing handler is passed over in silence.
CommandProcessAt_NoNack(t, list, p, op) ==
  LET none == [opcodeRead |-> <<>>, invoked |-> <<>>, sent |-> <<>>]
      h    == HandlerOf(op)
  IN  IF h # NULL /\ CmdMember(list, t[p].p_Cmd, h)
      THEN [none EXCEPT !.opcodeRead = << <<p, op>> >>,
                        !.invoked = << <<p, h>> >>]
      ELSE IF h = NULL /\ Ops(t[p].p_Ops).SendByte
           THEN [none EXCEPT !.opcodeRead = << <<p, op>> >>,
                             !.sent = << <<p, NACK_BYTE>> >>]
           ELSE [none EXCEPT !.opcodeRead = << <<p, op>> >>]

\* Mutant: the default label does not test SendByte before calling it.
CommandProcessAt_DefaultUnchecked(t, list, p, op) ==
  LET none == [opcodeRead |-> <<>>, invoked |-> <<>>, sent |-> <<>>]
      h    == HandlerOf(op)
  IN  IF h # NULL /\ CmdMember(list, t[p].p_Cmd, h)
      THEN [none EXCEPT !.opcodeRead = << <<p, op>> >>,
                        !.invoked = << <<p, h>> >>]
      ELSE IF h = NULL \/ Ops(t[p].p_Ops).SendByte
           THEN [none EXCEPT !.opcodeRead = << <<p, op>> >>,
                             !.sent = << <<p, NACK_BYTE>> >>]
           ELSE [none EXCEPT !.opcodeRead = << <<p, op>> >>]

\* OPENBL_CommandProcess with p_Interface = &t[p], GetCommandOpcode()
\* returning op.
CommandProcessAt(t, list, p, op) ==
  LET ops  == Ops(t[p].p_Ops)
      none == [opcodeRead |-> <<>>, invoked |-> <<>>, sent |-> <<>>]
      h    == HandlerOf(op)
      nack == IF ops.SendByte THEN << <<p, NACK_BYTE>> >> ELSE <<>>
  IN  IF ~ops.GetCommandOpcode THEN none
      ELSE IF h = NULL
           THEN [none EXCEPT !.opcodeRead = << <<p, op>> >>, !.sent = nack]
           ELSE IF CmdMember(list, t[p].p_Cmd, h)
                THEN [none EXCEPT !.opcodeRead = << <<p, op>> >>,
                                  !.invoked = << <<p, h>> >>]
                ELSE [none EXCEPT !.opcodeRead = << <<p, op>> >>, !.sent = nack]

OPENBL_CommandProcess(t, list, ptr, op) == CommandProcessAt(t, list, ptr[1], op)

\* The for loop of OPENBL_Init that calls every registered Init.
RECURSIVE InitLoop(_, _, _)
InitLoop(t, n, counter) ==
  IF counter >= n THEN <<>>
  ELSE (IF Ops(t[counter].p_Ops).Init THEN <<t[counter].p_Ops>> ELSE <<>>)
       \o InitLoop(t, n, counter + 1)


(***************************************************************************)
(* Flash engine: functions of flash_interface.c                            *)
(***************************************************************************)
\* The flags of FLASH_FLAG_SR_ERRORS the model follows.
FLASH_FLAG_SR_ERRORS == {"PROGERR", "WRPERR"}

HAL_FLASH_ERROR_NONE == {}

\* Polls that may find the busy flag set: enough to exhaust either budget.
MaxBusy == FLASH_TIMEOUT_VALUE + 2

BusyPolls == 0 .. MaxBusy

\* Byte values a payload is drawn from.
PayloadBytes == {0, 1, 2, 3}

\* Mutant: only the low byte is read.
ReadU16_LowByte(p, off) == p[off + 1]

\* *(uint16_t *)(p_Data + off) on the little-endian core; p is 1-based.
ReadU16(p, off) == p[off + 1] + 256 * p[off + 2]

\* The selectors of a mass erase.
FLASH_MASS_ERASE == 0

FLASH_BANK1_ERASE == 1

FLASH_BANK2_ERASE == 2

\* Values of FLASH_EraseInitTypeDef.Banks.
FLASH_BANK_1 == "FLASH_BANK_1"

FLASH_BANK_2 == "FLASH_BANK_2"

\* The banks of the part.
AllBanks(dual) == IF dual THEN {1, 2} ELSE {1}

\* The write-protection zones of the part, in the order the engine programs
\* them.
ZoneOrder(dual) ==
  IF dual
  THEN <<"OB_WRPAREA_BANK1_AREAA", "OB_WRPAREA_BANK1_AREAB",
         "OB_WRPAREA_BANK2_AREAA", "OB_WRPAREA_BANK2_AREAB">>
  ELSE <<"OB_WRPAREA_BANK1_AREAA", "OB_WRPAREA_BANK1_AREAB">>

Zones(dual) == {ZoneOrder(dual)[i] : i \in 1 .. Len(ZoneOrder(dual))}

\* wrp_start_offset = 0x7F, wrp_end_offset = 0x00: a zone that protects
\* nothing.
Unprotected == [WRPStartOffset |-> 127, WRPEndOffset |-> 0]

\* The read-out protection levels, by rank.
OB_RDP_LEVEL2 == 2

RDPLevels == 0 .. OB_RDP_LEVEL2

\* Mutant: the budget is exceeded one poll later.
TimedOut_Late(tick, Timeout) == tick > Timeout + 1

\* if (tick++ > Timeout), on the value tick has before the increment.
TimedOut(tick, Timeout) == tick > Timeout

\* Mutant: the busy byte is sent whatever the build.
SendBusyBytes_Always(i2c, stillBusy) == stillBusy

\* #ifdef I2Cx OPENBL_I2C_SendBusyByte(): the busy bytes of a keep-alive
\* wait whose loop body ran stillBusy times.
SendBusyBytes(i2c, stillBusy) == IF i2c THEN stillBusy ELSE 0

\* No erase has touched the caches.
NoCacheLog == [during |-> <<>>, flushed |-> 0, erases |-> <<>>]

\* No wait routine is running.
NoWait ==
  [pc |-> "idle", routine |-> "none", Timeout |-> 0, tick |-> 0, polls |-> 0,
   bsy |-> FALSE, bytes |-> 0, status |-> "none"]

\* The outcome of a wait loop: the flash is found busy on the first `busy`
\* polls.  tick++ > Timeout first holds on poll Timeout + 2.
WaitLoop(Timeout, busy) ==
  IF busy >= Timeout + 2
  THEN [timeout |-> TRUE,  polls |-> Timeout + 2, stillBusy |-> Timeout + 1]
  ELSE [timeout |-> FALSE, polls |-> busy + 1,    stillBusy |-> busy]

\* What a wait routine returns: HAL_TIMEOUT out of the loop, else HAL_ERROR
\* when an error flag is read, else HAL_OK.
WaitStatus(loop, error) ==
  IF loop.timeout THEN "HAL_TIMEOUT"
  ELSE IF error # {} THEN "HAL_ERROR" ELSE "HAL_OK"

\* The log entry of one wait: the routine, its polls, the busy bytes it sent,
\* the lock token and the busy-state flag at that moment, and its status.
WaitEntry(f, routine, loop, error, bytes) ==
  [routine |-> routine, polls |-> loop.polls, stillBusy |-> loop.stillBusy,
   bytes |-> bytes, lock |-> f.fp.Lock, busyState |-> f.busyState,
   status |-> WaitStatus(loop, error)]

\* What a wait that accumulates leaves once its loop is over, the error flags
\* of SR being error: on HAL_ERROR the flags are added to
\* FlashProcess.ErrorCode and cleared.
WaitReturn(f, routine, loop, error) ==
  [f |-> [f EXCEPT
            !.waits = Append(@, WaitEntry(f, routine, loop, error, 0)),
            !.fp.ErrorCode = IF ~loop.timeout THEN @ \cup error ELSE @,
            !.sr = IF ~loop.timeout THEN @ \ error ELSE @],
   status |-> WaitStatus(loop, error)]

\* What OPENBL_FLASH_SendBusyState leaves once its loop is over: the busy
\* bytes sent, and on HAL_ERROR the flags cleared.
KeepAliveReturn(f, loop, error) ==
  [f |-> [f EXCEPT
            !.waits = Append(@, WaitEntry(f, "keepalive", loop, error,
                                          SendBusyBytes(f.i2c, loop.stillBusy))),
            !.busyBytes = @ + SendBusyBytes(f.i2c, loop.stillBusy),
            !.sr = IF ~loop.timeout THEN @ \ error ELSE @],
   status |-> WaitStatus(loop, error)]

\* OPENBL_FLASH_WaitForLastOperation on engine state f.
OPENBL_FLASH_WaitForLastOperation(f, Timeout, busy) ==
  WaitReturn(f, "plain", WaitLoop(Timeout, busy), f.sr \cap FLASH_FLAG_SR_ERRORS)

\* OPENBL_FLASH_SendBusyState on engine state f.
OPENBL_FLASH_SendBusyState(f, Timeout, busy) ==
  KeepAliveReturn(f, WaitLoop(Timeout, busy), f.sr \cap FLASH_FLAG_SR_ERRORS)

\* The vendor's FLASH_WaitForLastOperation.
FLASH_WaitForLastOperation(f, Timeout, busy) ==
  WaitReturn(f, "vendor", WaitLoop(Timeout, busy), f.sr \cap FLASH_FLAG_SR_ERRORS)

\* The vendor's FLASH_FlushCaches: flush, and enable again what was recorded.
FLASH_FlushCaches(f) ==
  LET c == f.fp.CacheToReactivate
  IN  [f EXCEPT
         !.acr = [ICEN |-> @.ICEN \/ c \in {"FLASH_CACHE_ICACHE_ENABLED",
                                             "FLASH_CACHE_ICACHE_DCACHE_ENABLED"},
                  DCEN |-> @.DCEN \/ c \in {"FLASH_CACHE_DCACHE_ENABLED",
                                             "FLASH_CACHE_ICACHE_DCACHE_ENABLED"}],
         !.fp.CacheToReactivate = "FLASH_CACHE_DISABLED",
         !.cacheLog.flushed = @ + 1]

\* Mutant: with both caches on, only the instruction cache is recorded.
DeactivateCaches_ICacheOnly(f) ==
  IF f.acr.ICEN
  THEN [f EXCEPT !.acr = [ICEN |-> FALSE, DCEN |-> FALSE],
                 !.fp.CacheToReactivate = "FLASH_CACHE_ICACHE_ENABLED"]
  ELSE IF f.acr.DCEN
       THEN [f EXCEPT !.acr = [ICEN |-> FALSE, DCEN |-> FALSE],
                      !.fp.CacheToReactivate = "FLASH_CACHE_DCACHE_ENABLED"]
       ELSE [f EXCEPT !.fp.CacheToReactivate = "FLASH_CACHE_DISABLED"]

\* The cache deactivation at the head of an erase.
DeactivateCaches(f) ==
  IF f.acr.ICEN
  THEN IF f.acr.DCEN
       THEN [f EXCEPT !.acr = [ICEN |-> FALSE, DCEN |-> FALSE],
                      !.fp.CacheToReactivate = "FLASH_CACHE_ICACHE_DCACHE_ENABLED"]
       ELSE [f EXCEPT !.acr = [ICEN |-> FALSE, DCEN |-> FALSE],
                      !.fp.CacheToReactivate = "FLASH_CACHE_ICACHE_ENABLED"]
  ELSE IF f.acr.DCEN
       THEN [f EXCEPT !.acr = [ICEN |-> FALSE, DCEN |-> FALSE],
                      !.fp.CacheToReactivate = "FLASH_CACHE_DCACHE_ENABLED"]
       ELSE [f EXCEPT !.fp.CacheToReactivate = "FLASH_CACHE_DISABLED"]

\* The controller starts an erase: the command is logged with the cache
\* enables of that moment.  The errors it ends with latch in SR when the busy
\* flag clears; a wait that gives up before that returns without reading SR,
\* and the flags are there for the next call.
StartErase(f, cmd, hw) ==
  [f EXCEPT !.issued = Append(@, cmd),
            !.cacheLog.during =
               Append(@, [ICEN |-> f.acr.ICEN, DCEN |-> f.acr.DCEN,
                          recorded |-> f.fp.CacheToReactivate]),
            !.sr = @ \cup hw.errors]

\* The wait after an erase command: keep-alive or plain, by Flash_BusyState.
EraseWait(f, keepTimeout, plainTimeout, busy) ==
  IF f.busyState = "FLASH_BUSY_STATE_ENABLED"
  THEN OPENBL_FLASH_SendBusyState(f, keepTimeout, busy)
  ELSE FLASH_WaitForLastOperation(f, plainTimeout, busy)

\* SET_BIT(FLASH->CR, FLASH_CR_MER1) and FLASH_CR_STRT: the bank the
\* controller erases.
MassEraseCommand(Banks) == [cmd |-> "MASS", banks |-> {1}]

\* The mass-erase branch of OPENBL_FLASH_ExtendedErase.
EraseMass(f, pEraseInit, hw) ==
  EraseWait(StartErase(f, MassEraseCommand(pEraseInit.Banks), hw),
            FLASH_TIMEOUT_VALUE, FLASH_TIMEOUT_VALUE, hw.busy)

\* The page loop of OPENBL_FLASH_ExtendedErase from page_index on; hws[i] is
\* the controller's behaviour for the i-th page erased.
RECURSIVE ErasePages(_, _, _, _, _)
RECURSIVE ErasePagesAfter(_, _, _, _)
ErasePages(f, pEraseInit, page_index, hws, st) ==
  IF page_index >= pEraseInit.Page + pEraseInit.NbPages
  THEN [f |-> f, status |-> st]
  ELSE ErasePagesAfter(
         EraseWait(StartErase(f, [cmd |-> "PAGE", page |-> page_index,
                                  bank |-> pEraseInit.Banks],
                              hws[page_index - pEraseInit.Page + 1]),
                   FLASH_TIMEOUT_VALUE, PROGRAM_TIMEOUT,
                   hws[page_index - pEraseInit.Page + 1].busy),
         pEraseInit, page_index, hws)

\* if (status != HAL_OK) break; after the wait of one page, which returned w.
ErasePagesAfter(w, pEraseInit, page_index, hws) ==
  IF w.status # "HAL_OK" THEN w
  ELSE ErasePages(w.f, pEraseInit, page_index + 1, hws, w.status)

\* Mutant: the erase goes on after a first wait that read an error flag.
PreWaitClean_NotTimeout(st) == st # "HAL_TIMEOUT"

\* if (status == HAL_OK) after the first wait of OPENBL_FLASH_ExtendedErase.
PreWaitClean(st) == st = "HAL_OK"

\* Mutant: the lock token is kept.
HAL_UNLOCK_Kept(f) == f

\* __HAL_UNLOCK(&FlashProcess).
HAL_UNLOCK(f) == [f EXCEPT !.fp.Lock = "HAL_UNLOCKED"]

\* __HAL_LOCK(&FlashProcess) on a free token, and the reset of the error
\* bitmask that follows it.
HAL_LOCK(f) ==
  [f EXCEPT !.fp.Lock = "HAL_LOCKED", !.fp.ErrorCode = HAL_FLASH_ERROR_NONE]

\* FLASH_FlushCaches() at the end of the block the first wait guards.
Flushed(e) == [f |-> FLASH_FlushCaches(e.f), status |-> e.status]

\* OPENBL_FLASH_ExtendedErase after its first wait, which returned first:
\* the block under if (status == HAL_OK).
EraseAfterFirstWait(pEraseInit, hws, first) ==
  IF PreWaitClean(first.status)
  THEN Flushed(IF pEraseInit.TypeErase = "FLASH_TYPEERASE_MASSERASE"
               THEN EraseMass(DeactivateCaches(first.f), pEraseInit, hws[1])
               ELSE ErasePages(DeactivateCaches(first.f), pEraseInit,
                               pEraseInit.Page, hws, first.status))
  ELSE first

\* Mutant: the busy-state flag is left as it was.
Disable_BusyState_Flag_Kept(f) == f

\* OPENBL_Disable_BusyState_Flag on engine state f.
OPENBL_Disable_BusyState_Flag(f) ==
  [f EXCEPT !.busyState = "FLASH_BUSY_STATE_DISABLED"]

\* The end of OPENBL_FLASH_ExtendedErase, entered on f: the token released,
\* the busy-state flag reset, the status returned; the procedure is logged
\* with the caches on entry and on exit, its flushes, its commands and the
\* combination it recorded.
EraseReturn(f, first, erased) ==
  [f |-> [OPENBL_Disable_BusyState_Flag(HAL_UNLOCK(erased.f)) EXCEPT
            !.cacheLog.erases =
               Append(@, [entry |-> f.acr, exit |-> erased.f.acr,
                          flushes |-> erased.f.cacheLog.flushed
                                        - f.cacheLog.flushed,
                          commands |-> Len(erased.f.issued) - Len(f.issued),
                          recorded |->
                            IF Len(erased.f.issued) > Len(f.issued)
                            THEN erased.f.cacheLog.during[
                                   Len(f.cacheLog.during) + 1].recorded
                            ELSE "none",
                          first |-> first.status,
                          status |-> erased.status])],
   status |-> erased.status]

\* OPENBL_FLASH_ExtendedErase with the token taken and the first wait over.
ExtendedEraseLocked(f, pEraseInit, hws, first) ==
  EraseReturn(f, first, EraseAfterFirstWait(pEraseInit, hws, first))

\* OPENBL_FLASH_ExtendedErase on engine state f.  pre is the number of polls
\* the first wait finds the flash busy.
OPENBL_FLASH_ExtendedErase(f, pEraseInit, pre, hws) ==
  IF f.fp.Lock = "HAL_LOCKED" THEN [f |-> f, status |-> "HAL_BUSY"]
  ELSE ExtendedEraseLocked(
         f, pEraseInit, hws,
         OPENBL_FLASH_WaitForLastOperation(HAL_LOCK(f), PROGRAM_TIMEOUT, pre))

\* Mutant: the control register stays as it was.
OPENBL_FLASH_Unlock_Skipped(f) == f

\* HAL_FLASH_Unlock / HAL_FLASH_Lock behind OPENBL_FLASH_Unlock / _Lock.
OPENBL_FLASH_Unlock(f) == [f EXCEPT !.crLock = FALSE]

OPENBL_FLASH_Lock(f) == [f EXCEPT !.crLock = TRUE]

\* The if / else-if chain of OPENBL_FLASH_MassErase on bank_option: the Banks
\* member it sets, or NULL where it sets status = ERROR.
MassEraseBanks(dual, bank_option) ==
  IF bank_option = FLASH_MASS_ERASE THEN "0U"
  ELSE IF bank_option = FLASH_BANK1_ERASE THEN FLASH_BANK_1
  ELSE IF dual /\ bank_option = FLASH_BANK2_ERASE THEN FLASH_BANK_2
  ELSE NULL

\* OPENBL_FLASH_Lock() and return status at the end of an erase entry point.
LockAndReturn(r) == [f |-> OPENBL_FLASH_Lock(r.f), status |-> r.status]

\* if (HAL_OK != OPENBL_FLASH_ExtendedErase(...)) status = ERROR; else SUCCESS.
MassEraseStatus(e) ==
  [f |-> e.f, status |-> IF e.status # "HAL_OK" THEN "ERROR" ELSE "SUCCESS"]

\* OPENBL_FLASH_MassErase on engine state f.
OPENBL_FLASH_MassErase(f, dual, p_Data, DataLength, pre, hw) ==
  LockAndReturn(
    IF DataLength >= 2
    THEN LET Banks == MassEraseBanks(dual, ReadU16(p_Data, 0))
         IN  IF Banks = NULL
             THEN [f |-> OPENBL_FLASH_Unlock(f), status |-> "ERROR"]
             ELSE MassEraseStatus(
                    OPENBL_FLASH_ExtendedErase(
                      OPENBL_FLASH_Unlock(f),
                      [TypeErase |-> "FLASH_TYPEERASE_MASSERASE",
                       Banks |-> Banks, Page |-> 0, NbPages |-> 0],
                      pre, <<hw>>))
    ELSE [f |-> OPENBL_FLASH_Unlock(f), status |-> "ERROR"])

\* __HAL_FLASH_CLEAR_FLAG(FLASH_FLAG_ALL_ERRORS).
ClearAllErrors(f) == [f EXCEPT !.sr = {}]

Min(a, b) == IF a < b THEN a ELSE b

\* Mutant: the bound counts only the bytes that follow the count field.
EraseBound_AfterCount(pages_number, DataLength) ==
  Min(pages_number, IF DataLength >= 2 THEN (DataLength - 2) \div 2 ELSE 0)

\* The bound of the page loop: counter < pages_number and
\* counter < DataLength / 2.
EraseBound(pages_number, DataLength) == Min(pages_number, DataLength \div 2)

\* The bank a page index selects in OPENBL_FLASH_Erase, or NULL where the
\* code sets status = ERROR.
PageBank(dual, Page) ==
  IF Page <= 127 THEN FLASH_BANK_1
  ELSE IF dual /\ Page <= 255 THEN FLASH_BANK_2
  ELSE NULL

\* Mutant: a failure replaces the count, so a later page's outcome is the
\* only one kept.
CountError_Last(errors, halStatus) == IF halStatus # "HAL_OK" THEN 1 ELSE 0

\* if (OPENBL_FLASH_ExtendedErase(...) != HAL_OK) errors++.
CountError(errors, halStatus) ==
  IF halStatus # "HAL_OK" THEN errors + 1 ELSE errors

\* The page loop of OPENBL_FLASH_Erase from counter on.  mem is the memory at
\* p_Data (the count field included); bs[i] is the controller's behaviour
\* for the i-th entry.
RECURSIVE EraseLoop(_, _, _, _, _, _, _, _)
RECURSIVE EraseLoopAfter(_, _, _, _, _, _, _, _, _, _)
EraseLoop(f, dual, mem, pages_number, DataLength, counter, errors, bs) ==
  IF ~(counter < EraseBound(pages_number, DataLength))
  THEN [f |-> f, errors |-> errors]
  ELSE
    LET Page  == ReadU16(mem, 2 + 2 * counter)
        Banks == PageBank(dual, Page)
    IN  IF Banks # NULL
        THEN EraseLoopAfter(
               OPENBL_FLASH_ExtendedErase(
                 f, [TypeErase |-> "FLASH_TYPEERASE_PAGES",
                     Banks |-> Banks, Page |-> Page, NbPages |-> 1],
                 bs[counter + 1].pre, <<bs[counter + 1].hw>>),
               Page, Banks, dual, mem, pages_number, DataLength, counter,
               errors, bs)
        ELSE EraseLoop([f EXCEPT !.pageLog =
                          Append(@, [page |-> Page, bank |-> NULL,
                                     status |-> "none"])],
                       dual, mem, pages_number, DataLength, counter + 1,
                       errors, bs)

\* The rest of the loop after the erase of one page, which returned e: the
\* test of its status, and the next entry.
EraseLoopAfter(e, Page, Banks, dual, mem, pages_number, DataLength, counter, errors, bs) ==
  EraseLoop([e.f EXCEPT !.pageLog = Append(@, [page |-> Page, bank |-> Banks,
                                               status |-> e.status])],
            dual, mem, pages_number, DataLength, counter + 1,
            CountError(errors, e.status), bs)

\* if (errors > 0) status = ERROR; else status = SUCCESS.
EraseStatus(r) ==
  [f |-> r.f, status |-> IF r.errors > 0 THEN "ERROR" ELSE "SUCCESS"]

\* OPENBL_FLASH_Erase on engine state f.
OPENBL_FLASH_Erase(f, dual, mem, DataLength, bs) ==
  LockAndReturn(
    EraseStatus(EraseLoop(ClearAllErrors(OPENBL_FLASH_Unlock(f)), dual, mem,
                          ReadU16(mem, 0), DataLength, 0, 0, bs)))

\* The vendor's HAL_FLASH_Program behind OPENBL_FLASH_ProgramQuadWord and
\* OPENBL_FLASH_ProgramDoubleWord: one unit written at Address.  The call is
\* logged with the state of the control-register lock at that moment; the
\* bad-th call of a request is the one the controller fails, and its status
\* is dropped by the caller.
HAL_FLASH_Program(f, TypeProgram, Address, Data, bad) ==
  [f EXCEPT !.programmed = Append(@, [TypeProgram |-> TypeProgram,
                                      Address |-> Address, Data |-> Data,
                                      unlocked |-> ~f.crLock,
                                      ok |-> Len(f.programmed) + 1 # bad])]

\* Mutant: the scratch buffer keeps its zero initialiser above the tail.
RemainderData_ZeroFill(mem, length, remainder) ==
  [index \in 1 .. 16 |-> IF index <= remainder THEN mem[length + index] ELSE 0]

\* remainder_data after the two loops that fill it.
RemainderData(mem, length, remainder) ==
  [index \in 1 .. 16 |-> IF index <= remainder THEN mem[length + index] ELSE 255]

\* The program loop of OPENBL_FLASH_Write from index on, in units of `unit`
\* bytes read at Data + index.
RECURSIVE ProgramLoop(_, _, _, _, _, _, _, _)
ProgramLoop(f, TypeProgram, unit, Address, mem, length, index, bad) ==
  IF ~(index < length) THEN f
  ELSE ProgramLoop(HAL_FLASH_Program(f, TypeProgram, Address + index,
                                     SubSeq(mem, index + 1, index + unit), bad),
                   TypeProgram, unit, Address, mem, length, index + unit, bad)

\* OPENBL_FLASH_Write on engine state f.  mem is the memory at Data.
OPENBL_FLASH_Write(f, quad, Address, mem, DataLength, bad) ==
  IF quad
  THEN LET remainder == DataLength % 16
           length    == IF remainder # 0 THEN DataLength - remainder
                        ELSE DataLength
           unlocked  == OPENBL_FLASH_Unlock(f)
           whole     == ProgramLoop(unlocked, "FLASH_TYPEPROGRAM_QUADWORD", 16,
                                    Address, mem, length, 0, bad)
           last      == IF remainder # 0
                        THEN HAL_FLASH_Program(
                               whole, "FLASH_TYPEPROGRAM_QUADWORD",
                               Address + length,
                               RemainderData(mem, length, remainder), bad)
                        ELSE whole
       IN  OPENBL_FLASH_Lock(last)
  ELSE LET length   == IF DataLength % 8 # 0
                       THEN (DataLength - (DataLength % 8)) + 8
                       ELSE DataLength
           unlocked == OPENBL_FLASH_Unlock(f)
       IN  OPENBL_FLASH_Lock(
             ProgramLoop(unlocked, "FLASH_TYPEPROGRAM_DOUBLEWORD", 8, Address,
                         mem, length, 0, bad))

\* OPENBL_FLASH_OB_Unlock: HAL_FLASH_Unlock, then HAL_FLASH_OB_Unlock.
OPENBL_FLASH_OB_Unlock(f) == [f EXCEPT !.crLock = FALSE, !.obLock = FALSE]

\* The vendor's HAL_FLASHEx_OBProgram: the request reaches the option bytes
\* when the controller accepts it (oks tells which calls it accepts).
HAL_FLASHEx_OBProgram(f, flash_ob, oks) ==
  LET ok == oks[Len(f.obLog) + 1]
      g  == [f EXCEPT !.obLog = Append(@, [ob |-> flash_ob, ok |-> ok])]
  IN  IF ~ok THEN g
      ELSE IF flash_ob.OptionType = "OPTIONBYTE_RDP"
           THEN [g EXCEPT !.ob.RDPLevel = flash_ob.RDPLevel]
           ELSE [g EXCEPT !.ob.WRP[flash_ob.WRPArea] =
                            [WRPStartOffset |-> flash_ob.WRPStartOffset,
                             WRPEndOffset |-> flash_ob.WRPEndOffset]]

\* Common_SetPostProcessingCallback of the command layer: one slot.
Common_SetPostProcessingCallback(f, Callback) ==
  [f EXCEPT !.postProcessing = Callback]

\* Mutant: every requested level is programmed, level 2 included.
SetReadOutProtectionLevel_AnyLevel(f, Level, oks) ==
  Common_SetPostProcessingCallback(
    HAL_FLASHEx_OBProgram(
      OPENBL_FLASH_OB_Unlock(f),
      [OptionType |-> "OPTIONBYTE_RDP", RDPLevel |-> Level], oks),
    "OPENBL_OB_Launch")

\* OPENBL_FLASH_SetReadOutProtectionLevel on engine state f.
OPENBL_FLASH_SetReadOutProtectionLevel(f, Level, oks) ==
  LET done == IF Level # OB_RDP_LEVEL2
              THEN HAL_FLASHEx_OBProgram(
                     OPENBL_FLASH_OB_Unlock(f),
                     [OptionType |-> "OPTIONBYTE_RDP", RDPLevel |-> Level], oks)
              ELSE f
  IN  Common_SetPostProcessingCallback(done, "OPENBL_OB_Launch")

\* Mutant: the pair is programmed end first.
EnableZone_Swapped(f, dual, k, ListOfPages, Length, oks) ==
  IF Length >= 2 * k /\ k <= Len(ZoneOrder(dual))
  THEN HAL_FLASHEx_OBProgram(
         f, [OptionType |-> "OPTIONBYTE_WRP", WRPArea |-> ZoneOrder(dual)[k],
             WRPStartOffset |-> ListOfPages[2 * k],
             WRPEndOffset |-> ListOfPages[2 * k - 1]], oks)
  ELSE f

\* The k-th if block of OPENBL_FLASH_EnableWriteProtection: Length >= 2k
\* programs the k-th zone with bytes 2k - 2 and 2k - 1 of the list (1-based
\* here).  The blocks of bank two exist on dual-bank parts only.
EnableZone(f, dual, k, ListOfPages, Length, oks) ==
  IF Length >= 2 * k /\ k <= Len(ZoneOrder(dual))
  THEN HAL_FLASHEx_OBProgram(
         f, [OptionType |-> "OPTIONBYTE_WRP", WRPArea |-> ZoneOrder(dual)[k],
             WRPStartOffset |-> ListOfPages[2 * k - 1],
             WRPEndOffset |-> ListOfPages[2 * k]], oks)
  ELSE f

\* OPENBL_FLASH_EnableWriteProtection on engine state f.
OPENBL_FLASH_EnableWriteProtection(f, dual, ListOfPages, Length, oks) ==
  LET unlocked == OPENBL_FLASH_OB_Unlock(f)
      a1 == EnableZone(unlocked, dual, 1, ListOfPages, Length, oks)
      a2 == EnableZone(a1, dual, 2, ListOfPages, Length, oks)
      b1 == EnableZone(a2, dual, 3, ListOfPages, Length, oks)
      b2 == EnableZone(b1, dual, 4, ListOfPages, Length, oks)
  IN  [f |-> b2, status |-> "SUCCESS"]

\* Mutant: a zone that already protects nothing is left alone.
DisableZone_IfProtected(f, dual, k, oks) ==
  IF k <= Len(ZoneOrder(dual)) /\ f.ob.WRP[ZoneOrder(dual)[k]] # Unprotected
  THEN HAL_FLASHEx_OBProgram(
         f, [OptionType |-> "OPTIONBYTE_WRP", WRPArea |-> ZoneOrder(dual)[k],
             WRPStartOffset |-> 127, WRPEndOffset |-> 0], oks)
  ELSE f

\* One block of OPENBL_FLASH_DisableWriteProtection: the k-th zone is
\* programmed with start 0x7F and end 0x00.
DisableZone(f, dual, k, oks) ==
  IF k <= Len(ZoneOrder(dual))
  THEN HAL_FLASHEx_OBProgram(
         f, [OptionType |-> "OPTIONBYTE_WRP", WRPArea |-> ZoneOrder(dual)[k],
             WRPStartOffset |-> 127, WRPEndOffset |-> 0], oks)
  ELSE f

\* OPENBL_FLASH_DisableWriteProtection on engine state f.
OPENBL_FLASH_DisableWriteProtection(f, dual, oks) ==
  LET unlocked == OPENBL_FLASH_OB_Unlock(f)
      a1 == DisableZone(unlocked, dual, 1, oks)
      a2 == DisableZone(a1, dual, 2, oks)
      b1 == DisableZone(a2, dual, 3, oks)
      b2 == DisableZone(b1, dual, 4, oks)
  IN  [f |-> b2, status |-> "SUCCESS"]

\* Mutant: a disable registers no callback, and an unknown state does.
SetWriteProtection_DisableUnregistered(f, dual, State, ListOfPages, Length, oks) ==
  IF State = "ENABLE"
  THEN [f |-> Common_SetPostProcessingCallback(
                OPENBL_FLASH_EnableWriteProtection(f, dual, ListOfPages, Length,
                                                   oks).f,
                "OPENBL_OB_Launch"),
        status |-> "SUCCESS"]
  ELSE IF State = "DISABLE"
  THEN [f |-> OPENBL_FLASH_DisableWriteProtection(f, dual, oks).f,
        status |-> "SUCCESS"]
  ELSE [f |-> Common_SetPostProcessingCallback(f, "OPENBL_OB_Launch"),
        status |-> "ERROR"]

\* OPENBL_FLASH_SetWriteProtection on engine state f: the status of the
\* enable or disable routine is not read.
OPENBL_FLASH_SetWriteProtection(f, dual, State, ListOfPages, Length, oks) ==
  IF State = "ENABLE"
  THEN [f |-> Common_SetPostProcessingCallback(
                OPENBL_FLASH_EnableWriteProtection(f, dual, ListOfPages, Length,
                                                   oks).f,
                "OPENBL_OB_Launch"),
        status |-> "SUCCESS"]
  ELSE IF State = "DISABLE"
  THEN [f |-> Common_SetPostProcessingCallback(
                OPENBL_FLASH_DisableWriteProtection(f, dual, oks).f,
                "OPENBL_OB_Launch"),
        status |-> "SUCCESS"]
  ELSE [f |-> f, status |-> "ERROR"]


(***************************************************************************)
(* Core: startup and the dispatcher loop                                   *)
(***************************************************************************)
CoreInit ==
  /\ compiled \in SUBSET Transports
  /\ commandsList \in CommandsLists
  /\ pc = "register"
  /\ regIndex = 1
  /\ NumberOfInterfaces = 0
  /\ a_InterfacesTable = [s \in Slots |-> NullHandle]
  /\ p_Interface = <<>>
  /\ interface_detected = 0
  /\ lastCall = "none"
  /\ regArg = NullHandle
  /\ status = "none"
  /\ regStatuses = <<>>
  /\ surfaced = <<>>
  /\ configured = <<>>
  /\ probed = <<>>
  /\ opcodeRead = <<>>
  /\ invoked = <<>>
  /\ sent = <<>>

\* One OPENBL_RegisterInterface call of OPENBL_Init: the next handle of the
\* build, its return value dropped by the caller.
RegisterInterface ==
  /\ pc = "register"
  /\ LET list      == BuildList(compiled)
         Interface == HandleOf(list[regIndex])
         r == OPENBL_RegisterInterface(a_InterfacesTable, NumberOfInterfaces,
                                       Interface)
     IN  /\ a_InterfacesTable' = r.table
         /\ NumberOfInterfaces' = r.n
         /\ status' = r.status
         /\ regArg' = Interface
         /\ regStatuses' = Append(regStatuses, r.status)
         /\ regIndex' = regIndex + 1
         /\ pc' = IF regIndex = Len(list) THEN "configure" ELSE "register"
  /\ lastCall' = "OPENBL_RegisterInterface"
  /\ UNCHANGED <<compiled, commandsList, p_Interface, interface_detected,
                 surfaced, configured, probed, opcodeRead, invoked, sent>>
  /\ UNCHANGED flashVars

\* The rest of OPENBL_Init: every registered Init, the memories, and the
\* return of a void function.
OPENBL_Init ==
  /\ pc = "configure"
  /\ configured' = InitLoop(a_InterfacesTable, NumberOfInterfaces, 0)
  /\ surfaced' = <<>>
  /\ pc' = "loop"
  /\ lastCall' = "OPENBL_Init"
  /\ UNCHANGED <<compiled, commandsList, regIndex, NumberOfInterfaces,
                 a_InterfacesTable, p_Interface, interface_detected, regArg,
                 status, regStatuses, probed, opcodeRead, invoked, sent>>
  /\ UNCHANGED flashVars

\* Mutant: detection runs on every call.
HandlerCall_Redetect(ret, op) ==
  LET det == OPENBL_InterfaceDetection(a_InterfacesTable, NumberOfInterfaces,
                                       p_Interface, ret)
      cp  == IF det.detected = 1
             THEN OPENBL_CommandProcess(a_InterfacesTable, commandsList,
                                        det.p, op)
             ELSE [opcodeRead |-> <<>>, invoked |-> <<>>, sent |-> <<>>]
  IN  /\ interface_detected' = det.detected
      /\ p_Interface' = det.p
      /\ probed' = det.probed
      /\ opcodeRead' = cp.opcodeRead
      /\ invoked' = cp.invoked
      /\ sent' = cp.sent

\* What one OPENBL_Handler call leaves, given the Detection() results ret and
\* the opcode op the transport would deliver.
HandlerCall(ret, op) ==
  LET det == IF interface_detected = 0
             THEN OPENBL_InterfaceDetection(a_InterfacesTable,
                                            NumberOfInterfaces, p_Interface, ret)
             ELSE [detected |-> interface_detected, p |-> p_Interface,
                   probed |-> <<>>]
      cp  == IF det.detected = 1
             THEN OPENBL_CommandProcess(a_InterfacesTable, commandsList,
                                        det.p, op)
             ELSE [opcodeRead |-> <<>>, invoked |-> <<>>, sent |-> <<>>]
  IN  /\ interface_detected' = det.detected
      /\ p_Interface' = det.p
      /\ probed' = det.probed
      /\ opcodeRead' = cp.opcodeRead
      /\ invoked' = cp.invoked
      /\ sent' = cp.sent

\* OPENBL_Handler, called again and again once startup is over.
\* The Detection() results are an input of the calls that probe, the opcode
\* of the calls that read one.
OPENBL_Handler ==
  /\ pc = "loop"
  /\ \E ret \in (IF interface_detected = 0 THEN [Slots -> DetectValues]
                  ELSE {[s \in Slots |-> 0], [s \in Slots |-> 1]}) :
       LET quiet == HandlerCall(ret, "OTHER_BYTE")
       IN  IF ENABLED (quiet /\ opcodeRead' # <<>>)
           THEN \E op \in Opcodes : HandlerCall(ret, op)
           ELSE quiet
  /\ lastCall' = "OPENBL_Handler"
  /\ UNCHANGED <<compiled, commandsList, pc, regIndex, NumberOfInterfaces,
                 a_InterfacesTable, regArg, status, regStatuses, surfaced,
                 configured>>
  /\ UNCHANGED flashVars

(***************************************************************************)
(* Flash engine: the calls of the command handlers                         *)
(***************************************************************************)
\* The engine state an entry point starts from: the registers and globals,
\* and empty logs.
Engine ==
  [i2c |-> "I2C" \in compiled,
   crLock |-> crLock, acr |-> acr, sr |-> sr, fp |-> FlashProcess,
   busyState |-> Flash_BusyState, issued |-> <<>>, waits |-> <<>>,
   busyBytes |-> 0, cacheLog |-> NoCacheLog,
   pageLog |-> <<>>, programmed |-> <<>>, ob |-> optionBytes,
   obLock |-> obLock, obLog |-> <<>>, postProcessing |-> postProcessing,
   launched |-> FALSE]

Store(f) ==
  /\ crLock' = f.crLock
  /\ acr' = f.acr
  /\ sr' = f.sr
  /\ FlashProcess' = f.fp
  /\ Flash_BusyState' = f.busyState
  /\ issued' = f.issued
  /\ waits' = f.waits
  /\ busyBytes' = f.busyBytes
  /\ cacheLog' = f.cacheLog
  /\ pageLog' = f.pageLog
  /\ programmed' = f.programmed
  /\ optionBytes' = f.ob
  /\ obLock' = f.obLock
  /\ obLog' = f.obLog
  /\ postProcessing' = f.postProcessing
  /\ launched' = f.launched
  /\ wait' = wait

FlashInit ==
  /\ dualBank \in BOOLEAN
  /\ crLock = TRUE
  /\ acr \in [ICEN : BOOLEAN, DCEN : BOOLEAN]
  /\ sr = {}
  /\ FlashProcess = [Lock |-> "HAL_UNLOCKED", ErrorCode |-> HAL_FLASH_ERROR_NONE,
                     CacheToReactivate |-> "FLASH_CACHE_DISABLED"]
  /\ Flash_BusyState = "FLASH_BUSY_STATE_DISABLED"
  /\ flashCall = "none"
  /\ flashArg = <<>>
  /\ flashResult = "none"
  /\ issued = <<>>
  /\ waits = <<>>
  /\ busyBytes = 0
  /\ cacheLog = NoCacheLog
  /\ pageLog = <<>>
  /\ quadWord \in BOOLEAN
  /\ programmed = <<>>
  /\ optionBytes \in {[RDPLevel |-> l, WRP |-> [z \in Zones(dualBank) |-> Unprotected]] :
                        l \in RDPLevels}
  /\ obLock = TRUE
  /\ obLog = <<>>
  /\ postProcessing = NULL
  /\ launched = FALSE
  /\ wait = NoWait

\* Payloads of a mass erase: none, one or two bytes.
MassErasePayloads ==
  {<<>>} \cup {<<a>> : a \in PayloadBytes}
         \cup {<<a, b>> : a \in PayloadBytes, b \in PayloadBytes}

\* Polls the wait at the head of an erase may find the flash busy: idle,
\* busy for a while, busy past the budget.
PreBusy == {0, 1, PROGRAM_TIMEOUT + 2}

\* What the controller does with an erase: busy polls and the error flags it
\* ends with.
EraseBehaviours == [busy : BusyPolls, errors : SUBSET FLASH_FLAG_SR_ERRORS]

\* The controller idle and ending without error.
IdleHw == [busy |-> 0, errors |-> {}]

\* The state a flash call with result r leaves.
Return(r, p_Data) ==
  /\ Store(r.f)
  /\ flashResult' = r.status
  /\ flashArg' = p_Data

\* OPENBL_FLASH_MassErase(p_Data, DataLength) on a payload of payloads, the
\* flash busy for pre \in pres polls at the first wait and behaving as
\* hw \in hws.  The controller's behaviour is an input only of the calls that
\* wait on it.
MassEraseOf(payloads, pres, hws) ==
  /\ \E p_Data \in payloads :
       LET idle == OPENBL_FLASH_MassErase(Engine, dualBank, p_Data,
                                          Len(p_Data), 0, IdleHw)
       IN  IF idle.f.waits = <<>>
           THEN Return(idle, p_Data)
           ELSE \E pre \in pres :
                  LET first == OPENBL_FLASH_MassErase(Engine, dualBank, p_Data,
                                                      Len(p_Data), pre, IdleHw)
                  IN  IF first.f.issued = <<>>
                      THEN Return(first, p_Data)
                      ELSE \E hw \in hws :
                             Return(OPENBL_FLASH_MassErase(
                                      Engine, dualBank, p_Data, Len(p_Data),
                                      pre, hw), p_Data)
  /\ flashCall' = "OPENBL_FLASH_MassErase"
  /\ UNCHANGED <<dualBank, quadWord>>
  /\ UNCHANGED coreVars

MassErase == MassEraseOf(MassErasePayloads, PreBusy, EraseBehaviours)

\* Page-erase payloads: a declared count, then up to two distinct page
\* indices, each two bytes low byte first, whole or cut one byte short.
PageIndices == {0, 200, 300}

PageCounts == {1, 2, 3}

Bytes16(v) == <<v % 256, v \div 256>>

RECURSIVE Encode(_)
Encode(vs) == IF vs = <<>> THEN <<>> ELSE Bytes16(Head(vs)) \o Encode(Tail(vs))

PageLists ==
  {<<>>} \cup {<<a>> : a \in PageIndices}
         \cup {l \in PageIndices \X PageIndices : l[1] # l[2]}

ErasePayloads ==
  LET whole == {Encode(<<c>> \o l) : c \in PageCounts, l \in PageLists}
                 \cup {Encode(<<0>>)}
  IN  whole \cup {SubSeq(w, 1, Len(w) - 1) : w \in whole}

\* The two bytes of memory that follow the payload.
BytesBeyond == {Bytes16(v) : v \in {0, 300}}

\* What the controller does with one page: erase cleanly, end with an error
\* flag, or stay busy past the budget.
PageBehaviours ==
  {[pre |-> 0, hw |-> IdleHw],
   [pre |-> 0, hw |-> [busy |-> 1, errors |-> {"PROGERR"}]],
   [pre |-> 0, hw |-> [busy |-> MaxBusy, errors |-> {}]]}

CleanPage == [pre |-> 0, hw |-> IdleHw]

\* OPENBL_FLASH_Erase(p_Data, DataLength) on a payload of payloads, the
\* controller behaving as one of behaviours for each page.  The controller's
\* behaviour is an input only for the entries whose erase is started.
PageEraseOf(payloads, behaviours) ==
  /\ \E p_Data \in payloads, beyond \in BytesBeyond :
       LET mem   == p_Data \o beyond
           n     == EraseBound(ReadU16(mem, 0), Len(p_Data))
           reads == 2 + 2 * n
       IN  /\ (reads <= Len(p_Data) => beyond = <<0, 0>>)
           /\ \E bs \in [1 .. n -> behaviours] :
                /\ \A i \in 1 .. n :
                     PageBank(dualBank, ReadU16(mem, 2 * i)) = NULL
                       => bs[i] = CleanPage
                /\ Return(OPENBL_FLASH_Erase(Engine, dualBank, mem,
                                             Len(p_Data), bs), p_Data)
  /\ flashCall' = "OPENBL_FLASH_Erase"
  /\ UNCHANGED <<dualBank, quadWord>>
  /\ UNCHANGED coreVars

PageErase == PageEraseOf(ErasePayloads, PageBehaviours)

\* The requests of a session that mixes the two erases: mass-erase payloads
\* with a valid, an unknown and a truncated selector, page-erase payloads
\* with no entry, one entry and two, and a controller that erases cleanly,
\* ends with an error flag, stays busy past the budget (with the flag it then
\* latches), or is still busy when the request arrives.
SessionMassPayloads == {<<0>>, <<0, 0>>, <<1, 0>>, <<3, 0>>}

SessionBehaviours ==
  {IdleHw, [busy |-> 1, errors |-> {"PROGERR"}],
   [busy |-> MaxBusy, errors |-> {"WRPERR"}]}

SessionPagePayloads ==
  {Encode(<<0>>), Encode(<<1, 0>>), Encode(<<1, 300>>), Encode(<<2, 0, 200>>)}

SessionPageBehaviours ==
  {[pre |-> 0, hw |-> hw] : hw \in SessionBehaviours}
    \cup {[pre |-> PROGRAM_TIMEOUT + 2, hw |-> IdleHw]}

SessionMassErase ==
  MassEraseOf(SessionMassPayloads, PreBusy, SessionBehaviours)

SessionPageErase == PageEraseOf(SessionPagePayloads, SessionPageBehaviours)

\* Buffers handed to a write: up to MaxWrite bytes, byte i holding i.
MaxWrite == 18

WriteBuffers == {[i \in 1 .. n |-> i] : n \in 0 .. MaxWrite}

WriteAddresses == {0, 64}

\* The seven bytes of memory that follow the buffer.
MemoryBeyond == {[i \in 1 .. 7 |-> b] : b \in {0, 255}}

\* The unit of a write whose programming the controller fails: none, the
\* first or the second.
UnitFailures == {0, 1, 2}

\* OPENBL_FLASH_Write(Address, Data, DataLength).
Write ==
  /\ \E Address \in WriteAddresses, Data \in WriteBuffers,
        beyond \in MemoryBeyond, bad \in UnitFailures :
       LET r == OPENBL_FLASH_Write(Engine, quadWord, Address, Data \o beyond,
                                   Len(Data), bad)
       IN  /\ (quadWord \/ Len(Data) % 8 = 0) => beyond[1] = 0
           /\ bad <= Len(r.programmed)
           /\ Return([f |-> r, status |-> "none"], <<Address, Data>>)
  /\ flashCall' = "OPENBL_FLASH_Write"
  /\ UNCHANGED <<dualBank, quadWord>>
  /\ UNCHANGED coreVars

\* Which HAL_FLASHEx_OBProgram calls of one request the controller accepts:
\* all of them, or all but one.
Acceptances ==
  {[i \in 1 .. 4 |-> i # bad] : bad \in 0 .. 4}

AllAccepted == [i \in 1 .. 4 |-> TRUE]

\* OPENBL_FLASH_SetReadOutProtectionLevel(Level).
SetReadOutProtectionLevel ==
  /\ \E Level \in RDPLevels, oks \in Acceptances :
       /\ \A i \in 2 .. 4 : oks[i]
       /\ (Level = OB_RDP_LEVEL2 => oks = AllAccepted)
       /\ Return([f |-> OPENBL_FLASH_SetReadOutProtectionLevel(Engine, Level,
                                                               oks),
                  status |-> "none"],
                 <<Level>>)
  /\ flashCall' = "OPENBL_FLASH_SetReadOutProtectionLevel"
  /\ UNCHANGED <<dualBank, quadWord>>
  /\ UNCHANGED coreVars

\* Lists of pages handed to a write-protection request: up to MaxList bytes,
\* byte i holding i.
MaxList == 9

PageListsWP == {[i \in 1 .. n |-> i] : n \in 0 .. MaxList}

FunctionalStates == {"ENABLE", "DISABLE", "OTHER"}

\* OPENBL_FLASH_SetWriteProtection(State, ListOfPages, Length).
SetWriteProtection ==
  /\ \E State \in FunctionalStates, ListOfPages \in PageListsWP,
        oks \in Acceptances :
       LET r == OPENBL_FLASH_SetWriteProtection(Engine, dualBank, State,
                                                ListOfPages, Len(ListOfPages),
                                                AllAccepted)
       IN  /\ (State # "ENABLE" => ListOfPages = <<>>)
           /\ \A i \in 1 .. 4 : i > Len(r.f.obLog) => oks[i]
           /\ Return(OPENBL_FLASH_SetWriteProtection(
                        Engine, dualBank, State, ListOfPages,
                        Len(ListOfPages), oks),
                     <<State, ListOfPages>>)
  /\ flashCall' = "OPENBL_FLASH_SetWriteProtection"
  /\ UNCHANGED <<dualBank, quadWord>>
  /\ UNCHANGED coreVars

\* The budgets the engine hands to its wait routines.
Timeouts == {PROGRAM_TIMEOUT, FLASH_TIMEOUT_VALUE}

WaitRoutines == {"OPENBL_FLASH_WaitForLastOperation", "OPENBL_FLASH_SendBusyState"}

\* A wait routine is entered: tick = 0.  The controller may have latched error
\* flags since the last wait.
WaitCall ==
  /\ wait.pc # "poll"
  /\ \E routine \in WaitRoutines, Timeout \in Timeouts,
        latched \in SUBSET FLASH_FLAG_SR_ERRORS :
       /\ wait' = [pc |-> "poll", routine |-> routine, Timeout |-> Timeout,
                   tick |-> 0, polls |-> 0, bsy |-> FALSE, bytes |-> 0,
                   status |-> "none"]
       /\ sr' = sr \cup latched
  /\ UNCHANGED <<dualBank, quadWord, crLock, acr, FlashProcess,
                 Flash_BusyState, flashCall, flashArg, flashResult, issued,
                 waits, busyBytes, cacheLog, pageLog, programmed, optionBytes,
                 obLock, obLog, postProcessing, launched>>
  /\ UNCHANGED coreVars

\* One evaluation of while (__HAL_FLASH_GET_FLAG(FLASH_FLAG_BSY)) and of what
\* follows it: the loop body when the flag is set, the reading of the error
\* flags and the return when it is clear.
WaitPoll ==
  /\ wait.pc = "poll"
  /\ \E bsy \in BOOLEAN :
       LET polled == [wait EXCEPT !.polls = @ + 1, !.bsy = bsy]
           error  == sr \cap FLASH_FLAG_SR_ERRORS
       IN  IF bsy
           THEN /\ IF TimedOut(wait.tick, wait.Timeout)
                   THEN wait' = [polled EXCEPT !.tick = @ + 1, !.pc = "done",
                                               !.status = "HAL_TIMEOUT"]
                   ELSE wait' = [polled EXCEPT
                                   !.tick = @ + 1,
                                   !.bytes = IF wait.routine = "OPENBL_FLASH_SendBusyState"
                                             THEN @ + SendBusyBytes("I2C" \in compiled, 1)
                                             ELSE @]
                /\ UNCHANGED <<sr, FlashProcess>>
           ELSE IF error # {}
           THEN /\ wait' = [polled EXCEPT !.pc = "done", !.status = "HAL_ERROR"]
                /\ sr' = sr \ error
                /\ FlashProcess' =
                     IF wait.routine = "OPENBL_FLASH_WaitForLastOperation"
                     THEN [FlashProcess EXCEPT !.ErrorCode = @ \cup error]
                     ELSE FlashProcess
           ELSE /\ wait' = [polled EXCEPT !.pc = "done", !.status = "HAL_OK"]
                /\ UNCHANGED <<sr, FlashProcess>>
  /\ UNCHANGED <<dualBank, quadWord, crLock, acr, Flash_BusyState, flashCall,
                 flashArg, flashResult, issued, waits, busyBytes, cacheLog,
                 pageLog, programmed, optionBytes, obLock, obLog,
                 postProcessing, launched>>
  /\ UNCHANGED coreVars

\* OPENBL_Enable_BusyState_Flag, called by a handler before a long operation.
OPENBL_Enable_BusyState_Flag ==
  /\ Flash_BusyState' = "FLASH_BUSY_STATE_ENABLED"
  /\ flashCall' = "OPENBL_Enable_BusyState_Flag"
  /\ flashArg' = <<>>
  /\ flashResult' = "none"
  /\ issued' = <<>>
  /\ waits' = <<>>
  /\ busyBytes' = 0
  /\ cacheLog' = NoCacheLog
  /\ pageLog' = <<>>
  /\ programmed' = <<>>
  /\ obLog' = <<>>
  /\ launched' = FALSE
  /\ UNCHANGED <<dualBank, quadWord, crLock, acr, sr, FlashProcess,
                 optionBytes, obLock, postProcessing, wait>>
  /\ UNCHANGED coreVars

(***************************************************************************)
(* Specifications                                                          *)
(***************************************************************************)
\* The dispatcher, with the flash engine at rest.
Init ==
  /\ dualBank = FALSE
  /\ quadWord = FALSE
  /\ acr = [ICEN |-> FALSE, DCEN |-> FALSE]
  /\ FlashInit
  /\ optionBytes.RDPLevel = 0
  /\ CoreInit

Next == RegisterInterface \/ OPENBL_Init \/ OPENBL_Handler

Spec == Init /\ [][Next]_vars

\* The flash engine, with the dispatcher at rest, in a build with the I2C
\* transport.
InitFlash ==
  /\ compiled = {"I2C"}
  /\ commandsList = {}
  /\ quadWord = FALSE
  /\ CoreInit
  /\ FlashInit
  /\ optionBytes.RDPLevel = 0

NextFlash == MassErase \/ OPENBL_Enable_BusyState_Flag

SpecFlash == InitFlash /\ [][NextFlash]_vars

\* The page erase of the flash engine.
InitErase ==
  /\ compiled = {"I2C"}
  /\ commandsList = {}
  /\ quadWord = FALSE
  /\ acr = [ICEN |-> TRUE, DCEN |-> TRUE]
  /\ CoreInit
  /\ FlashInit
  /\ optionBytes.RDPLevel = 0

NextErase == PageErase \/ OPENBL_Enable_BusyState_Flag

SpecErase == InitErase /\ [][NextErase]_vars

\* A session of mass erases and page erases, in a build with the I2C
\* transport and in one without it.
InitSession ==
  /\ compiled \in {{}, {"I2C"}}
  /\ commandsList = {}
  /\ quadWord = FALSE
  /\ CoreInit
  /\ FlashInit
  /\ optionBytes.RDPLevel = 0

NextSession ==
  SessionMassErase \/ SessionPageErase \/ OPENBL_Enable_BusyState_Flag

SpecSession == InitSession /\ [][NextSession]_vars

\* The programming of the flash engine.
InitWrite ==
  /\ compiled = {}
  /\ commandsList = {}
  /\ dualBank = FALSE
  /\ acr = [ICEN |-> TRUE, DCEN |-> TRUE]
  /\ CoreInit
  /\ FlashInit
  /\ optionBytes.RDPLevel = 0

NextWrite == Write

SpecWrite == InitWrite /\ [][NextWrite]_vars

\* The protection requests of the flash engine.
InitProtect ==
  /\ compiled = {}
  /\ commandsList = {}
  /\ quadWord = FALSE
  /\ acr = [ICEN |-> TRUE, DCEN |-> TRUE]
  /\ CoreInit
  /\ FlashInit

NextProtect == SetReadOutProtectionLevel \/ SetWriteProtection

SpecProtect == InitProtect /\ [][NextProtect]_vars

\* The wait routines of the flash engine, poll by poll.  A routine that is
\* running goes on running: the core has one thread of control.
InitWait ==
  /\ compiled = {"I2C"}
  /\ commandsList = {}
  /\ dualBank = FALSE
  /\ quadWord = FALSE
  /\ acr = [ICEN |-> TRUE, DCEN |-> TRUE]
  /\ CoreInit
  /\ FlashInit
  /\ optionBytes.RDPLevel = 0

NextWait == WaitCall \/ WaitPoll

SpecWait == InitWait /\ [][NextWait]_vars /\ WF_vars(WaitPoll)


(***************************************************************************)
(* Properties of the registry and the dispatcher (checked under Spec)      *)
(***************************************************************************)
Range(q) == {q[i] : i \in DOMAIN q}

\* The slots holding an interface that has a Detection member.
DetectCapable ==
  {s \in Slots : s < NumberOfInterfaces
                 /\ Ops(a_InterfacesTable[s].p_Ops).Detection}

\* C1: a registration attempted with INTERFACES_SUPPORTED interfaces
\* registered returns ERROR and changes neither the table nor the count; one
\* attempted with fewer returns SUCCESS and writes exactly the next free slot.
C1_RegisterCapacityBounded ==
  [][lastCall' = "OPENBL_RegisterInterface" =>
       IF NumberOfInterfaces >= INTERFACES_SUPPORTED
       THEN /\ status' = "ERROR"
            /\ a_InterfacesTable' = a_InterfacesTable
            /\ NumberOfInterfaces' = NumberOfInterfaces
       ELSE /\ status' = "SUCCESS"
            /\ NumberOfInterfaces' = NumberOfInterfaces + 1
            /\ a_InterfacesTable'[NumberOfInterfaces] = regArg'
            /\ \A s \in Slots \ {NumberOfInterfaces} :
                 a_InterfacesTable'[s] = a_InterfacesTable[s]]_vars

\* A registration was refused with the table full.
C1_Witness ==
  /\ lastCall = "OPENBL_RegisterInterface"
  /\ status = "ERROR"
  /\ NumberOfInterfaces = INTERFACES_SUPPORTED
  /\ \A s \in Slots : a_InterfacesTable[s] # NullHandle

\* The interfaces startup has to register: the compiled-in transports and
\* the watchdog.
Required == compiled \cup {"IWDG"}

IsRegistered(k) ==
  \E s \in Slots : s < NumberOfInterfaces /\ a_InterfacesTable[s].p_Ops = k

\* C2: startup never completes with a compiled-in transport or the watchdog
\* left unregistered or unconfigured unless an error reaches its caller.
C2_OverflowSurfaced ==
  pc = "loop" =>
    \/ \A k \in Required : IsRegistered(k) /\ k \in Range(configured)
    \/ "ERROR" \in Range(surfaced)

\* C3: an undetected Handler call probes the interfaces that have a
\* Detection member, in registration order, none twice and none skipped, up
\* to the first reporting activity; that one becomes the active transport
\* and the ones after it are not probed; an interface without a Detection
\* member is never probed and never active.
C3_FirstActiveWins ==
  [][(lastCall' = "OPENBL_Handler" /\ interface_detected = 0) =>
       LET n     == Len(probed')
           slots == {probed'[i][1] : i \in 1 .. n}
       IN  /\ \A i \in 1 .. n : probed'[i][1] \in DetectCapable
           /\ \A i, j \in 1 .. n : i < j => probed'[i][1] < probed'[j][1]
           /\ \A s \in DetectCapable :
                (\E t \in slots : s < t) => s \in slots
           /\ \A i \in 1 .. n : probed'[i][2] = 1 => i = n
           /\ IF n > 0 /\ probed'[n][2] = 1
              THEN /\ p_Interface' = <<probed'[n][1]>>
                   /\ interface_detected' = 1
              ELSE /\ slots = DetectCapable
                   /\ p_Interface' = p_Interface
                   /\ interface_detected' # 1]_vars

\* The second of three transports reported activity: the first was probed
\* before it and the third was not probed.
C3_Witness ==
  /\ lastCall = "OPENBL_Handler"
  /\ Len(probed) = 2
  /\ probed[2] = <<1, 1>>
  /\ p_Interface = <<1>>
  /\ 2 \in DetectCapable

\* C4: once a transport is active, a Handler call probes nothing, keeps the
\* active handle and the detected state, and reads its opcode from and sends
\* its reply on the active transport only.
C4_DetectedIsTerminal ==
  [][(lastCall' = "OPENBL_Handler" /\ interface_detected = 1) =>
       /\ probed' = <<>>
       /\ interface_detected' = 1
       /\ p_Interface' = p_Interface
       /\ \A x \in Range(opcodeRead') \cup Range(sent') \cup Range(invoked') :
            <<x[1]>> = p_Interface]_vars

\* A later call on the second interface: nothing probed, an opcode read.
C4_Witness ==
  /\ lastCall = "OPENBL_Handler"
  /\ interface_detected = 1
  /\ probed = <<>>
  /\ p_Interface = <<1>>
  /\ Len(opcodeRead) = 1
  /\ opcodeRead[1][1] = 1

\* The dispatch of the last Handler call, when it read an opcode.
Dispatched == lastCall = "OPENBL_Handler" /\ opcodeRead # <<>>

ActiveSlot == p_Interface[1]

ActiveOps == Ops(a_InterfacesTable[ActiveSlot].p_Ops)

LastOpcode == opcodeRead[1][2]

OneNack == << <<ActiveSlot, NACK_BYTE>> >>

\* A known opcode whose handler is missing from the command list.
HandlerMissing ==
  /\ Dispatched
  /\ LastOpcode \in KnownOpcodes
  /\ HandlerOf(LastOpcode) \notin commandsList

\* C5 as stated: a known opcode without handler gets exactly one negative
\* acknowledgement, on every transport, and no handler runs.
C5_AlwaysOneNack ==
  HandlerMissing => sent = OneNack /\ invoked = <<>>

\* C5: a known opcode without handler gets exactly one negative
\* acknowledgement when the active transport has a SendByte member and no
\* byte when it has none, and no handler runs.
C5_NackIfSendByte ==
  HandlerMissing =>
    /\ sent = (IF ActiveOps.SendByte THEN OneNack ELSE <<>>)
    /\ invoked = <<>>

\* FDCAN is active and a known opcode has no handler: nothing is sent.
C5_Witness ==
  /\ HandlerMissing
  /\ a_InterfacesTable[ActiveSlot].p_Ops = "FDCAN"
  /\ sent = <<>>

\* C6: an opcode that is no case label gets exactly one negative
\* acknowledgement when the active transport has a SendByte member and
\* nothing otherwise; no handler runs.
C6_UnknownOpcode ==
  (Dispatched /\ LastOpcode \notin KnownOpcodes) =>
    /\ sent = (IF ActiveOps.SendByte THEN OneNack ELSE <<>>)
    /\ invoked = <<>>

\* An unknown opcode on a transport that cannot reply, with every handler
\* present.
C6_Witness ==
  /\ Dispatched
  /\ LastOpcode \notin KnownOpcodes
  /\ ~ActiveOps.SendByte
  /\ commandsList = Handlers
  /\ sent = <<>>

\* The handler each wire opcode names.
MatchingHandler ==
  [op \in KnownOpcodes |->
     CASE op = "CMD_GET_COMMAND"              -> "GetCommand"
       [] op = "CMD_GET_VERSION"              -> "GetVersion"
       [] op = "CMD_GET_ID"                   -> "GetID"
       [] op = "CMD_READ_MEMORY"              -> "ReadMemory"
       [] op = "CMD_WRITE_MEMORY"             -> "WriteMemory"
       [] op = "CMD_GO"                       -> "Go"
       [] op = "CMD_READ_PROTECT"             -> "ReadoutProtect"
       [] op = "CMD_READ_UNPROTECT"           -> "ReadoutUnprotect"
       [] op = "CMD_EXT_ERASE_MEMORY"         -> "EraseMemory"
       [] op = "CMD_LEG_ERASE_MEMORY"         -> "EraseMemory"
       [] op = "CMD_WRITE_PROTECT"            -> "WriteProtect"
       [] op = "CMD_WRITE_UNPROTECT"          -> "WriteUnprotect"
       [] op = "CMD_NS_WRITE_MEMORY"          -> "NsWriteMemory"
       [] op = "CMD_NS_ERASE_MEMORY"          -> "NsEraseMemory"
       [] op = "CMD_NS_WRITE_PROTECT"         -> "NsWriteProtect"
       [] op = "CMD_NS_WRITE_UNPROTECT"       -> "NsWriteUnprotect"
       [] op = "CMD_NS_READ_PROTECT"          -> "NsReadoutProtect"
       [] op = "CMD_NS_READ_UNPROTECT"        -> "NsReadoutUnprotect"
       [] op = "CMD_SPEED"                    -> "Speed"
       [] op = "CMD_SPECIAL_COMMAND"          -> "SpecialCommand"
       [] op = "CMD_EXTENDED_SPECIAL_COMMAND" -> "ExtendedSpecialCommand"]

\* C7: a Handler call in the detected state reads exactly one opcode, from
\* the active transport; when the handler the opcode names is in the command
\* list it calls that handler once, no other, and sends nothing; no call
\* both runs a handler and sends a byte.
C7_OneOpcodeOneHandler ==
  (lastCall = "OPENBL_Handler" /\ interface_detected = 1) =>
    /\ Len(opcodeRead) = 1
    /\ opcodeRead[1][1] = ActiveSlot
    /\ (LastOpcode \in KnownOpcodes
        /\ MatchingHandler[LastOpcode] \in commandsList) =>
         /\ invoked = << <<ActiveSlot, MatchingHandler[LastOpcode]>> >>
         /\ sent = <<>>
    /\ Len(invoked) <= 1
    /\ ~(invoked # <<>> /\ sent # <<>>)

\* The get-version opcode ran the get-version handler of a list that holds
\* other handlers too.
C7_Witness ==
  /\ Dispatched
  /\ LastOpcode = "CMD_GET_VERSION"
  /\ commandsList = BasicHandlers
  /\ invoked = << <<ActiveSlot, "GetVersion">> >>
  /\ sent = <<>>

\* C8: the legacy and the extended erase opcode have one outcome: the
\* erase-memory handler when the list holds it, and otherwise the negative
\* acknowledgement, or the silence, of a missing handler.
C8_EraseOpcodesAlike ==
  (Dispatched /\ LastOpcode \in {"CMD_LEG_ERASE_MEMORY", "CMD_EXT_ERASE_MEMORY"}) =>
    IF "EraseMemory" \in commandsList
    THEN invoked = << <<ActiveSlot, "EraseMemory">> >> /\ sent = <<>>
    ELSE /\ invoked = <<>>
         /\ sent = (IF ActiveOps.SendByte THEN OneNack ELSE <<>>)

\* The legacy opcode ran the erase-memory handler.
C8_Witness ==
  /\ Dispatched
  /\ LastOpcode = "CMD_LEG_ERASE_MEMORY"
  /\ invoked = << <<ActiveSlot, "EraseMemory">> >>


(***************************************************************************)
(* Properties of the flash engine (checked under SpecFlash)                *)
(***************************************************************************)
\* The 16-bit selector a two-byte payload carries, low byte first.
Selector(payload) == payload[1] + 256 * payload[2]

\* The banks each mass-erase selector names.
SelectedBanks(sel) ==
  CASE sel = 0 -> AllBanks(dualBank)
    [] sel = 1 -> {1}
    [] sel = 2 -> {2}

\* The payloads a mass erase accepts: two bytes selecting banks of the part.
ValidMassErase(payload) ==
  /\ Len(payload) >= 2
  /\ Selector(payload) \in {0, 1} \cup (IF dualBank THEN {2} ELSE {})

\* C9: the erase command a mass erase starts in the controller targets
\* exactly the banks its selector names: all banks for 0, bank one for 1,
\* bank two for 2.
C9_SelectedBanksErased ==
  (flashCall = "OPENBL_FLASH_MassErase" /\ issued # <<>>) =>
    /\ ValidMassErase(flashArg)
    /\ issued = << [cmd |-> "MASS", banks |-> SelectedBanks(Selector(flashArg))] >>

\* C10: a mass erase whose payload is shorter than two bytes or whose
\* selector names no bank set of the part returns ERROR, starts no erase and
\* no wait, leaves the caches, the lock token and the error bitmask as they
\* were, and returns with the control register locked.
C10_InvalidMassEraseRejected ==
  [][(flashCall' = "OPENBL_FLASH_MassErase" /\ ~ValidMassErase(flashArg')) =>
       /\ flashResult' = "ERROR"
       /\ issued' = <<>>
       /\ waits' = <<>>
       /\ acr' = acr
       /\ FlashProcess' = FlashProcess
       /\ crLock']_vars

\* Selector 256 is refused while the error bitmask holds the flags of an
\* earlier erase and a cache is enabled.
C10_Witness ==
  /\ flashCall = "OPENBL_FLASH_MassErase"
  /\ flashArg = <<0, 1>>
  /\ flashResult = "ERROR"
  /\ issued = <<>>
  /\ FlashProcess.ErrorCode # HAL_FLASH_ERROR_NONE
  /\ acr.ICEN
  /\ crLock


(***************************************************************************)
(* Properties of the page erase (checked under SpecErase)                  *)
(***************************************************************************)
\* The entries of the last page erase whose two bytes both lie in the payload.
Supplied == {k \in 1 .. Len(pageLog) : 2 * k + 2 <= Len(flashArg)}

\* The page index the k-th entry of the payload carries, low byte first.
EntryOf(payload, k) == payload[2 * k + 1] + 256 * payload[2 * k + 2]

\* A page index no bank of the part holds.
OutOfRange(page) == page > (IF dualBank THEN 255 ELSE 127)

\* The entries whose erase the last page erase attempted.
Attempted == {k \in 1 .. Len(pageLog) : ~OutOfRange(pageLog[k].page)}

\* C11: a page erase handed DataLength bytes (the count field included)
\* processes exactly min(declared count, DataLength / 2) entries, in payload
\* order, and returns SUCCESS when every entry it processed erased with status
\* OK, the error bitmask then being NONE, also when the declared count exceeds
\* the entries supplied.
C11_TruncatedPageErase ==
  flashCall = "OPENBL_FLASH_Erase" =>
    LET n == IF Len(flashArg) < 2 THEN 0
             ELSE Min(Selector(flashArg), Len(flashArg) \div 2)
        clean == \A k \in 1 .. Len(pageLog) : pageLog[k].status = "HAL_OK"
    IN  /\ Len(pageLog) = n
        /\ \A k \in Supplied : pageLog[k].page = EntryOf(flashArg, k)
        /\ clean => flashResult = "SUCCESS"
        /\ (clean /\ n > 0) => FlashProcess.ErrorCode = HAL_FLASH_ERROR_NONE

\* Count 3 with one page supplied in four bytes: two entries are processed,
\* both erase cleanly, and the call returns SUCCESS.
C11_Witness ==
  /\ flashCall = "OPENBL_FLASH_Erase"
  /\ flashArg = <<3, 0, 0, 0>>
  /\ Len(pageLog) = 2
  /\ pageLog[1] = [page |-> 0, bank |-> FLASH_BANK_1, status |-> "HAL_OK"]
  /\ pageLog[2].status = "HAL_OK"
  /\ flashResult = "SUCCESS"
  /\ FlashProcess.ErrorCode = HAL_FLASH_ERROR_NONE

C13_BadPageReported ==
  (flashCall = "OPENBL_FLASH_Erase"
     /\ \E k \in Supplied : OutOfRange(EntryOf(flashArg, k))) =>
    /\ flashResult = "ERROR"
    /\ \A i \in 1 .. Len(issued) : ~OutOfRange(issued[i].page)
    /\ Len(pageLog) = Min(Selector(flashArg), Len(flashArg) \div 2)


(***************************************************************************)
(* Properties of the programming (checked under SpecWrite)                 *)
(***************************************************************************)
\* C14: a write of DataLength bytes programs ceil(DataLength / unit) units
\* (16 bytes on quad-word parts, 8 on double-word parts), one program call
\* each, at Address, Address + unit, ... in ascending order; each unit holds
\* the bytes of the buffer at its place; on quad-word parts the bytes of the
\* last unit past the end of the buffer are 0xFF; five bytes on a double-word
\* part make one call of eight bytes, and no byte makes no call.
C14_WriteUnits ==
  flashCall = "OPENBL_FLASH_Write" =>
    LET Address == flashArg[1]
        Data    == flashArg[2]
        n       == Len(Data)
        unit    == IF quadWord THEN 16 ELSE 8
        units   == (n + unit - 1) \div unit
    IN  /\ Len(programmed) = units
        /\ \A i \in 1 .. units :
             /\ programmed[i].Address = Address + (i - 1) * unit
             /\ Len(programmed[i].Data) = unit
             /\ \A j \in 1 .. unit :
                  IF (i - 1) * unit + j <= n
                  THEN programmed[i].Data[j] = Data[(i - 1) * unit + j]
                  ELSE quadWord => programmed[i].Data[j] = 255
        /\ (~quadWord /\ n = 5) =>
             (Len(programmed) = 1 /\ Len(programmed[1].Data) = 8)
        /\ n = 0 => programmed = <<>>

\* Seventeen bytes on a quad-word part: two units, the second holding the
\* last byte and fifteen bytes 0xFF.
C14_Witness ==
  /\ flashCall = "OPENBL_FLASH_Write"
  /\ quadWord
  /\ Len(flashArg[2]) = 17
  /\ Len(programmed) = 2
  /\ programmed[2].Address = flashArg[1] + 16
  /\ programmed[2].Data[1] = 17
  /\ \A j \in 2 .. 16 : programmed[2].Data[j] = 255


(***************************************************************************)
(* Properties of the protection requests (checked under SpecProtect)       *)
(***************************************************************************)
\* The HAL_FLASHEx_OBProgram calls of a log that the controller accepted.
AllOk(log) == \A i \in 1 .. Len(log) : log[i].ok

\* C15: with the read-out protection at level 2, a request for level 0 or 1
\* programs no option byte, and the level never leaves 2.
C15_Level2Terminal ==
  [][optionBytes.RDPLevel = 2 =>
       /\ optionBytes'.RDPLevel = 2
       /\ (flashCall' = "OPENBL_FLASH_SetReadOutProtectionLevel"
             /\ flashArg'[1] \in {0, 1}) => obLog' = <<>>]_vars

\* C16: a read-out protection request for level 0 or 1 and a write-protection
\* enable or disable leave the option-byte launch routine in the
\* post-processing slot and launch nothing within the call; a write-protection
\* request with any other state leaves the slot as it was and programs
\* nothing.
C16_ResetDeferred ==
  [][/\ (flashCall' = "OPENBL_FLASH_SetReadOutProtectionLevel"
           /\ flashArg'[1] \in {0, 1}) =>
          (postProcessing' = "OPENBL_OB_Launch" /\ ~launched')
     /\ flashCall' = "OPENBL_FLASH_SetWriteProtection" =>
          IF flashArg'[1] \in {"ENABLE", "DISABLE"}
          THEN postProcessing' = "OPENBL_OB_Launch" /\ ~launched'
          ELSE /\ postProcessing' = postProcessing
               /\ ~launched'
               /\ obLog' = <<>>
               /\ optionBytes' = optionBytes]_vars

\* Level 1 was programmed and the launch routine waits in the slot.
C16_Witness ==
  /\ flashCall = "OPENBL_FLASH_SetReadOutProtectionLevel"
  /\ flashArg = <<1>>
  /\ optionBytes.RDPLevel = 1
  /\ Len(obLog) = 1
  /\ postProcessing = "OPENBL_OB_Launch"
  /\ ~launched

\* C17: a write-protection enable with Length bytes programs the first
\* min(Length / 2, Z) zones of the order bank-1 A, bank-1 B, bank-2 A,
\* bank-2 B (Z = 4 on dual-bank parts, 2 on single-bank parts), zone k with
\* start = byte 2k and end = byte 2k + 1 of the list counted from 0, and no
\* other zone.
C17_EnableZones ==
  (flashCall = "OPENBL_FLASH_SetWriteProtection" /\ flashArg[1] = "ENABLE") =>
    LET list == flashArg[2]
        Z    == IF dualBank THEN 4 ELSE 2
        n    == Min(Len(list) \div 2, Z)
        area == <<"OB_WRPAREA_BANK1_AREAA", "OB_WRPAREA_BANK1_AREAB",
                  "OB_WRPAREA_BANK2_AREAA", "OB_WRPAREA_BANK2_AREAB">>
    IN  /\ Len(obLog) = n
        /\ \A k \in 1 .. n :
             /\ obLog[k].ob.OptionType = "OPTIONBYTE_WRP"
             /\ obLog[k].ob.WRPArea = area[k]
             /\ obLog[k].ob.WRPStartOffset = list[2 * (k - 1) + 1]
             /\ obLog[k].ob.WRPEndOffset = list[2 * (k - 1) + 2]
             /\ obLog[k].ok =>
                  optionBytes.WRP[area[k]] =
                    [WRPStartOffset |-> list[2 * (k - 1) + 1],
                     WRPEndOffset |-> list[2 * (k - 1) + 2]]

\* Five bytes on a dual-bank part: the two zones of bank one are programmed,
\* those of bank two are not.
C17_Witness ==
  /\ flashCall = "OPENBL_FLASH_SetWriteProtection"
  /\ flashArg = <<"ENABLE", <<1, 2, 3, 4, 5>> >>
  /\ dualBank
  /\ Len(obLog) = 2
  /\ optionBytes.WRP["OB_WRPAREA_BANK1_AREAB"] =
       [WRPStartOffset |-> 3, WRPEndOffset |-> 4]
  /\ optionBytes.WRP["OB_WRPAREA_BANK2_AREAA"] =
       [WRPStartOffset |-> 127, WRPEndOffset |-> 0]

C19_StatusTellsDone ==
  flashCall = "OPENBL_FLASH_SetWriteProtection" =>
    /\ flashResult \in {"SUCCESS", "ERROR"}
    /\ (flashResult = "SUCCESS") =
         (flashArg[1] \in {"ENABLE", "DISABLE"} /\ AllOk(obLog))


(***************************************************************************)
(* Properties of the wait routines (checked under SpecWait)                *)
(***************************************************************************)
\* C20: a wait routine, plain or keep-alive, returns whatever the busy flag
\* does: it polls the flag at most Timeout + 2 times; it returns TIMEOUT
\* exactly when the flag was set on all Timeout + 2 polls, and then reads and
\* clears no error flag and records none; it returns ERROR or OK only on a
\* poll that finds the flag clear, ERROR exactly when error flags are latched.
C20_WaitsTerminate ==
  /\ [][(wait.pc = "poll") =>
          /\ wait'.polls <= wait.Timeout + 2
          /\ wait'.pc = "poll" => (wait'.bsy /\ wait'.polls <= wait.Timeout + 1)
          /\ wait'.pc = "done" =>
               /\ wait'.status \in {"HAL_OK", "HAL_ERROR", "HAL_TIMEOUT"}
               /\ (wait'.status = "HAL_TIMEOUT") =
                    (wait'.bsy /\ wait'.polls = wait.Timeout + 2)
               /\ wait'.status = "HAL_TIMEOUT" =>
                    (sr' = sr /\ FlashProcess' = FlashProcess)
               /\ wait'.status # "HAL_TIMEOUT" =>
                    /\ ~wait'.bsy
                    /\ (wait'.status = "HAL_ERROR") = (sr # {})
                    /\ [timeout |-> FALSE, polls |-> wait'.polls,
                        stillBusy |-> wait'.polls - 1]
                         = WaitLoop(wait.Timeout, wait'.polls - 1)]_vars
  /\ (wait.pc = "poll") ~> (wait.pc = "done")

\* The keep-alive routine gave up after Timeout + 2 polls with an error flag
\* latched, and returned TIMEOUT.
C20_Witness ==
  /\ wait.pc = "done"
  /\ wait.routine = "OPENBL_FLASH_SendBusyState"
  /\ wait.status = "HAL_TIMEOUT"
  /\ wait.polls = wait.Timeout + 2
  /\ wait.bytes = wait.Timeout + 1
  /\ sr # {}

(***************************************************************************)
(* Properties of the erase engine's waits, caches and lock token           *)
(***************************************************************************)
\* C21: a wait of either routine that finds the busy flag clear within its
\* budget reads the latched error flags, adds them to FlashProcess.ErrorCode
\* and clears them, and returns HAL_ERROR exactly when it read one, HAL_OK
\* otherwise.
C21_ErrorsAccumulated ==
  [][(wait.pc = "poll" /\ wait'.pc = "done" /\ wait'.status # "HAL_TIMEOUT") =>
       LET error == sr \cap FLASH_FLAG_SR_ERRORS
       IN  /\ sr' = sr \ error
           /\ FlashProcess'.ErrorCode = FlashProcess.ErrorCode \cup error
           /\ (wait'.status = "HAL_ERROR" <=> error # {})
           /\ (wait'.status = "HAL_OK" <=> error = {})]_vars

\* The combination an erase records for caches enabled as in a.
CacheTag(a) ==
  IF a.ICEN
  THEN IF a.DCEN THEN "FLASH_CACHE_ICACHE_DCACHE_ENABLED"
       ELSE "FLASH_CACHE_ICACHE_ENABLED"
  ELSE IF a.DCEN THEN "FLASH_CACHE_DCACHE_ENABLED" ELSE "FLASH_CACHE_DISABLED"

\* The erase procedures of the last call.
Erases == {cacheLog.erases[i] : i \in 1 .. Len(cacheLog.erases)}

\* C22 as stated: every erase procedure, for each of the four cache
\* combinations, has both caches off at each erase command, and on return,
\* whatever its status, has flushed the caches once and left each cache
\* enabled exactly if it was on entry.
C22_FlushedOnEveryReturn ==
  /\ \A i \in 1 .. Len(cacheLog.during) :
       ~cacheLog.during[i].ICEN /\ ~cacheLog.during[i].DCEN
  /\ \A e \in Erases : e.exit = e.entry /\ e.flushes = 1

\* C22, amended: every erase procedure leaves each cache enabled exactly if
\* it was on entry.  One whose first wait succeeds records the combination,
\* has both caches off at each erase command and flushes the caches once
\* before it returns, whether the erase succeeded, failed or timed out; one
\* whose first wait fails issues no command and neither disables nor flushes
\* the caches.
C22_CachesRestored ==
  /\ \A i \in 1 .. Len(cacheLog.during) :
       ~cacheLog.during[i].ICEN /\ ~cacheLog.during[i].DCEN
  /\ \A e \in Erases :
       /\ e.exit = e.entry
       /\ e.commands > 0 => e.flushes = 1 /\ e.recorded = CacheTag(e.entry)
       /\ e.commands = 0 => e.flushes = 0 /\ e.status # "HAL_OK"

\* An erase entered with the data cache alone enabled timed out after its
\* command, and the data cache alone is enabled again.
C22_Witness ==
  /\ \E e \in Erases :
       /\ e.entry = [ICEN |-> FALSE, DCEN |-> TRUE]
       /\ e.commands = 1
       /\ e.status = "HAL_TIMEOUT"
       /\ e.flushes = 1
  /\ acr = [ICEN |-> FALSE, DCEN |-> TRUE]

(***************************************************************************)
(* Properties of the programming (checked under SpecWrite)                 *)
(***************************************************************************)
\* C23: every OPENBL_FLASH_Write is bracketed by an unlock and a lock of the
\* control register: each unit is programmed with the register unlocked, and
\* the register is locked when the call returns, for a zero-length buffer and
\* when the controller fails a unit alike.
C23_WriteBracketed ==
  /\ crLock
  /\ flashCall = "OPENBL_FLASH_Write" =>
       \A i \in 1 .. Len(programmed) : programmed[i].unlocked

\* The controller failed the first of three units; the two that follow were
\* programmed unlocked, and the register is locked again.
C23_Witness ==
  /\ flashCall = "OPENBL_FLASH_Write"
  /\ Len(programmed) = 3
  /\ ~programmed[1].ok
  /\ programmed[2].unlocked /\ programmed[3].unlocked
  /\ crLock

(***************************************************************************)
(* Properties of a session of erases (checked under SpecSession)           *)
(***************************************************************************)
\* C24: the lock token is free whenever no erase procedure is executing, and
\* is held by exactly one procedure at a time: every wait of a procedure runs
\* with the token held, every procedure a mass erase or a page erase calls
\* finds the token free (none returns HAL_BUSY), and the token is free again
\* when the call returns, on every exit path.
C24_LockToken ==
  /\ FlashProcess.Lock = "HAL_UNLOCKED"
  /\ \A i \in 1 .. Len(waits) : waits[i].lock = "HAL_LOCKED"
  /\ \A e \in Erases : e.status \in {"HAL_OK", "HAL_ERROR", "HAL_TIMEOUT"}
  /\ flashCall = "OPENBL_FLASH_MassErase" =>
       Len(cacheLog.erases) = (IF ValidMassErase(flashArg) THEN 1 ELSE 0)
  /\ flashCall = "OPENBL_FLASH_Erase" =>
       /\ Len(cacheLog.erases) = Cardinality(Attempted)
       /\ \A k \in Attempted : pageLog[k].status # "HAL_BUSY"

\* A page erase ran two procedures: the first timed out after its command,
\* the second failed in its first wait.  Both held the token, and it is free.
C24_Witness ==
  /\ flashCall = "OPENBL_FLASH_Erase"
  /\ Len(cacheLog.erases) = 2
  /\ cacheLog.erases[1].status = "HAL_TIMEOUT"
  /\ cacheLog.erases[2].commands = 0
  /\ \A i \in 1 .. Len(waits) : waits[i].lock = "HAL_LOCKED"
  /\ Len(waits) = 3
  /\ FlashProcess.Lock = "HAL_UNLOCKED"

\* The waits of the last call that follow an erase command: every wait but
\* the first of each procedure.
EraseWaits == {i \in 1 .. Len(waits) : waits[i].routine # "plain"}

RECURSIVE SumBytes(_)
SumBytes(ws) == IF ws = <<>> THEN 0 ELSE Head(ws).bytes + SumBytes(Tail(ws))

\* C25 as stated: the wait that follows an erase command is the keep-alive
\* routine when the busy-state flag is enabled at that moment, and then sends
\* one busy byte for each poll that finds the flash busy within the budget;
\* it is the plain routine when the flag is disabled, and sends none.
C25_OneBytePerBusyPoll ==
  /\ \A i \in EraseWaits :
       IF waits[i].busyState = "FLASH_BUSY_STATE_ENABLED"
       THEN waits[i].routine = "keepalive"
            /\ waits[i].bytes = waits[i].stillBusy
       ELSE waits[i].routine = "vendor" /\ waits[i].bytes = 0
  /\ busyBytes = SumBytes(waits)

\* C25, amended: the wait that follows an erase command is the keep-alive
\* routine when the busy-state flag is enabled at that moment and the plain
\* routine when it is disabled, never both.  The keep-alive routine sends one
\* busy byte for each poll that finds the flash busy within the budget in a
\* build with the I2C transport, and none in a build without it; the plain
\* routine sends none.
C25_WaitVariant ==
  /\ \A i \in EraseWaits :
       IF waits[i].busyState = "FLASH_BUSY_STATE_ENABLED"
       THEN waits[i].routine = "keepalive"
            /\ waits[i].bytes = (IF "I2C" \in compiled THEN waits[i].stillBusy
                                 ELSE 0)
       ELSE waits[i].routine = "vendor" /\ waits[i].bytes = 0
  /\ \A i \in 1 .. Len(waits) : i \notin EraseWaits => waits[i].bytes = 0
  /\ busyBytes = SumBytes(waits)

\* In a build with the I2C transport a mass erase with the flag enabled
\* stayed busy past the budget: the keep-alive wait sent a byte on each of
\* its FLASH_TIMEOUT_VALUE + 1 busy polls.
C25_Witness ==
  /\ "I2C" \in compiled
  /\ flashCall = "OPENBL_FLASH_MassErase"
  /\ Len(waits) = 2
  /\ waits[2].routine = "keepalive"
  /\ waits[2].status = "HAL_TIMEOUT"
  /\ busyBytes = FLASH_TIMEOUT_VALUE + 1

\* C26: the busy-state flag does not outlive the operation: when a mass erase
\* or a page erase returns, the flag is disabled, whatever the payload and
\* whatever the controller did.
C26_FlagClearedOnReturn ==
  flashCall \in {"OPENBL_FLASH_MassErase", "OPENBL_FLASH_Erase"} =>
    Flash_BusyState = "FLASH_BUSY_STATE_DISABLED"

(***************************************************************************)
(* Properties of the detection state (checked under Spec)                  *)
(***************************************************************************)
\* C27: whatever a Detection member returns, the detection state after each
\* OPENBL_Handler call is 0 (undetected: the next call probes) or 1
\* (detected: the next call dispatches), so that no call does neither.
C27_DetectionStateBinary == interface_detected \in {0, 1}

\* The registered entries whose command table is absent.
NoCommandTable ==
  {s \in Slots : s < NumberOfInterfaces /\ a_InterfacesTable[s].p_Cmd = NULL}

\* C28: the dispatcher reads an opcode, looks up a handler or sends a byte
\* only with the detection state at 1 and p_Interface set, by a pass whose
\* Detection returned 1 for that entry, to a registered entry that has a
\* command table; every registered entry without a command table (and the USB
\* table) lacks Detection or GetCommandOpcode; while the state is not 1
\* no opcode is read, no handler is invoked and no byte is sent.
C28_NoNullDereference ==
  /\ \A s \in NoCommandTable :
       ~Ops(a_InterfacesTable[s].p_Ops).Detection
         \/ ~Ops(a_InterfacesTable[s].p_Ops).GetCommandOpcode
  /\ ~USB_Ops.Detection \/ ~USB_Ops.GetCommandOpcode
  /\ interface_detected = 1 =>
       /\ p_Interface # <<>>
       /\ p_Interface[1] \in DetectCapable
       /\ probed # <<>> => probed[Len(probed)] = <<p_Interface[1], 1>>
  /\ interface_detected # 1 =>
       opcodeRead = <<>> /\ invoked = <<>> /\ sent = <<>>
  /\ (opcodeRead # <<>> \/ invoked # <<>> \/ sent # <<>>) =>
       /\ interface_detected = 1
       /\ p_Interface # <<>>
       /\ a_InterfacesTable[p_Interface[1]].p_Cmd # NULL
       /\ Ops(a_InterfacesTable[p_Interface[1]].p_Ops).GetCommandOpcode
       /\ \A i \in 1 .. Len(opcodeRead) : opcodeRead[i][1] = p_Interface[1]
       /\ \A i \in 1 .. Len(invoked) : invoked[i][1] = p_Interface[1]
  /\ p_Interface # <<>> => interface_detected = 1

\* With the watchdog registered beside a transport, the pass in which the
\* transport's Detection returned 1 set p_Interface to it and read an opcode
\* whose handler was invoked.
C28_Witness ==
  /\ NoCommandTable # {}
  /\ interface_detected = 1
  /\ probed # <<>>
  /\ probed[Len(probed)] = <<p_Interface[1], 1>>
  /\ opcodeRead # <<>>
  /\ invoked # <<>>

(***************************************************************************)
(* Properties of the page-erase payload (checked under SpecErase)          *)
(***************************************************************************)
\* C29: a page erase reads only bytes of its payload: the two bytes of the
\* count field and the two bytes of every entry it processes lie within the
\* first DataLength bytes.
C29_ReadsInsidePayload ==
  flashCall = "OPENBL_FLASH_Erase" =>
    /\ Len(flashArg) >= 2
    /\ \A k \in 1 .. Len(pageLog) : 2 * k + 2 <= Len(flashArg)

\* The last call found the controller idle at every wait.
IdleAtEveryWait == \A i \in 1 .. Len(waits) : waits[i].polls = 1

\* An erase procedure whose first wait fails issues no command, neither
\* disables nor flushes the caches, releases the lock token and returns the
\* status of that wait; one that issues a command had a clean first wait.
FailedPreWaitIssuesNothing ==
  /\ FlashProcess.Lock = "HAL_UNLOCKED"
  /\ \A e \in Erases :
       /\ e.commands > 0 => e.first = "HAL_OK"
       /\ e.first # "HAL_OK" =>
            /\ e.first \in {"HAL_ERROR", "HAL_TIMEOUT"}
            /\ e.commands = 0
            /\ e.flushes = 0
            /\ e.exit = e.entry
            /\ e.status = e.first

\* The request of the last call is repeated at once and finds the controller
\* idle.
RepeatedOnIdle ==
  /\ flashCall \in {"OPENBL_FLASH_MassErase", "OPENBL_FLASH_Erase"}
  /\ flashCall' = flashCall
  /\ flashArg' = flashArg
  /\ IdleAtEveryWait'

\* Every erase procedure of the next call issues its command.
EveryEraseIssued ==
  /\ cacheLog'.erases # <<>>
  /\ \A i \in 1 .. Len(cacheLog'.erases) : cacheLog'.erases[i].commands = 1

\* C30 as stated: an erase procedure whose first wait returns HAL_ERROR or
\* HAL_TIMEOUT issues no command, leaves the caches alone, releases the lock
\* token and returns that status, and the same request repeated at once on
\* an idle controller issues its erase commands.
C30_RetryAfterAnyFailure ==
  /\ []FailedPreWaitIssuesNothing
  /\ [][((\E e \in Erases : e.first # "HAL_OK") /\ RepeatedOnIdle)
          => EveryEraseIssued]_vars

\* C30, amended: an erase procedure whose first wait returns HAL_ERROR or
\* HAL_TIMEOUT issues no command, leaves the caches alone, releases the lock
\* token and returns that status.  A first wait that returned HAL_ERROR has
\* cleared the error flags, and the same request repeated at once on an idle
\* controller issues its erase commands; after one that returned
\* HAL_TIMEOUT, which read no flag, it does so when no flag is latched.
C30_CleanPreWait ==
  /\ []FailedPreWaitIssuesNothing
  /\ []((cacheLog.erases # <<>>
          /\ cacheLog.erases[Len(cacheLog.erases)].first = "HAL_ERROR")
         => sr = {})
  /\ [][((\E e \in Erases : e.first # "HAL_OK") /\ sr = {} /\ RepeatedOnIdle)
          => EveryEraseIssued]_vars

\* A mass erase whose first wait read the flag an earlier erase had left
\* latched: it returned ERROR with no command issued, the caches as they
\* were, the token free and the flag cleared.
C30_Witness ==
  /\ flashCall = "OPENBL_FLASH_MassErase"
  /\ Len(cacheLog.erases) = 1
  /\ cacheLog.erases[1].first = "HAL_ERROR"
  /\ issued = <<>>
  /\ cacheLog.during = <<>>
  /\ acr = [ICEN |-> TRUE, DCEN |-> TRUE]
  /\ FlashProcess.Lock = "HAL_UNLOCKED"
  /\ FlashProcess.ErrorCode # HAL_FLASH_ERROR_NONE
  /\ sr = {}
  /\ flashResult = "ERROR"

(***************************************************************************)
(* Properties of the register locks (checked under SpecProtect)            *)
(***************************************************************************)
\* C31: the flash control register and the option-byte registers are locked
\* whenever the flash engine is idle: from a locked controller, each call
\* returns with both locked again.
C31_LockedWhenIdle == crLock /\ obLock

\* C32: a read-out protection request programs the requested level if and
\* only if the level is not 2: a request for level 0 or 1 makes one option-byte
\* programming call carrying that level (stored when the controller accepts
\* it), a request for level 2 makes none and leaves the option bytes as they
\* were; every request leaves the option-byte launch routine in the
\* post-processing slot; and no call of the engine moves the stored level to 2.
C32_Level2NeverProgrammed ==
  [][/\ flashCall' = "OPENBL_FLASH_SetReadOutProtectionLevel" =>
          /\ postProcessing' = "OPENBL_OB_Launch"
          /\ IF flashArg'[1] # OB_RDP_LEVEL2
             THEN /\ Len(obLog') = 1
                  /\ obLog'[1].ob = [OptionType |-> "OPTIONBYTE_RDP",
                                     RDPLevel |-> flashArg'[1]]
                  /\ obLog'[1].ok => optionBytes'.RDPLevel = flashArg'[1]
             ELSE /\ obLog' = <<>>
                  /\ optionBytes' = optionBytes
     /\ optionBytes'.RDPLevel = OB_RDP_LEVEL2 =>
          optionBytes.RDPLevel = OB_RDP_LEVEL2]_vars

\* Level 2 was requested at level 1: nothing was programmed, the level is
\* still 1 and the launch routine waits in the slot.
C32_Witness ==
  /\ flashCall = "OPENBL_FLASH_SetReadOutProtectionLevel"
  /\ flashArg = <<OB_RDP_LEVEL2>>
  /\ obLog = <<>>
  /\ optionBytes.RDPLevel = 1
  /\ postProcessing = "OPENBL_OB_Launch"

(***************************************************************************)
(* Properties of the keep-alive wait in a page erase (checked under        *)
(* SpecSession)                                                            *)
(***************************************************************************)
\* The waits of a log that ran the keep-alive routine.
KeepAliveWaits(ws) == {i \in 1 .. Len(ws) : ws[i].routine = "keepalive"}

\* A page erase entered with the busy-state flag enabled.
FlaggedPageErase ==
  /\ Flash_BusyState = "FLASH_BUSY_STATE_ENABLED"
  /\ flashCall' = "OPENBL_FLASH_Erase"

\* C33 as stated: in a page erase entered with the busy-state flag enabled,
\* the first entry that reaches OPENBL_FLASH_ExtendedErase waits for its
\* erase with the keep-alive routine, the flag is disabled when that call
\* returns, and every later wait of the batch is a plain one that sends no
\* busy byte, so at most one page is waited for with the keep-alive routine.
C33_FirstReachingPageKeepsAlive ==
  [][(FlaggedPageErase /\ waits' # <<>>) =>
       /\ Len(waits') >= 2
       /\ waits'[2].routine = "keepalive"
       /\ Flash_BusyState' = "FLASH_BUSY_STATE_DISABLED"
       /\ \A i \in 3 .. Len(waits') :
            waits'[i].routine # "keepalive" /\ waits'[i].bytes = 0
       /\ Cardinality(KeepAliveWaits(waits')) <= 1]_vars

\* C33, amended: in a page erase entered with the busy-state flag enabled,
\* at most one page is waited for with the keep-alive routine.  The first
\* entry that reaches OPENBL_FLASH_ExtendedErase finds the flag enabled and
\* leaves it disabled; it waits for its erase with the keep-alive routine
\* when its first wait is clean, and issues no erase and runs no keep-alive
\* wait when its first wait fails.  Every later wait of the batch finds the
\* flag disabled, is a plain one and sends no busy byte, so the busy bytes of
\* the call are those of that one keep-alive wait.
C33_KeepAliveAtMostOnce ==
  [][(FlaggedPageErase /\ waits' # <<>>) =>
       /\ waits'[1].busyState = "FLASH_BUSY_STATE_ENABLED"
       /\ Flash_BusyState' = "FLASH_BUSY_STATE_DISABLED"
       /\ Cardinality(KeepAliveWaits(waits')) <= 1
       /\ IF waits'[1].status = "HAL_OK"
          THEN /\ Len(waits') >= 2
               /\ waits'[2].routine = "keepalive"
               /\ busyBytes' = waits'[2].bytes
          ELSE /\ KeepAliveWaits(waits') = {}
               /\ busyBytes' = 0
               /\ \A i \in 2 .. Len(waits') :
                    waits'[i].busyState = "FLASH_BUSY_STATE_DISABLED"
       /\ \A i \in 3 .. Len(waits') :
            /\ waits'[i].busyState = "FLASH_BUSY_STATE_DISABLED"
            /\ waits'[i].routine \in {"plain", "vendor"}
            /\ waits'[i].bytes = 0]_vars

\* In a build with the I2C transport a page erase of two pages ran with the
\* flag enabled on entry: the first page was waited for with the keep-alive
\* routine, which sent a busy byte; the second page was busy as well and was
\* waited for with the plain routine, which sent none.
C33_Witness ==
  /\ "I2C" \in compiled
  /\ flashCall = "OPENBL_FLASH_Erase"
  /\ Len(waits) = 4
  /\ waits[1].busyState = "FLASH_BUSY_STATE_ENABLED"
  /\ waits[2].routine = "keepalive"
  /\ waits[2].bytes >= 1
  /\ waits[4].routine = "vendor"
  /\ waits[4].stillBusy >= 1
  /\ waits[4].bytes = 0
  /\ busyBytes = waits[2].bytes
  /\ Flash_BusyState = "FLASH_BUSY_STATE_DISABLED"

=============================================================================
